---- MODULE Spec2Model ----
(***************************************************************************)
(* A state-machine model of the GTK4 backend of the menu library:          *)
(* src/src/platform_impl/gtk/mod.rs (Menu, MenuChild, the gio/gtk objects  *)
(* they create and the action routing), with the item handles of           *)
(* src/src/items/*.rs.                                                     *)
(*                                                                         *)
(* Rust objects that are shared (Rc<RefCell<MenuChild>>, gio::Menu,        *)
(* gio::SimpleAction) live in heaps.  A MenuChild is named by its index   *)
(* in `nodes`; a gio object is named by the place that holds it: for the   *)
(* gio::Menu or the action of the k-th GtkMenuChild a node n keeps under   *)
(* the key id, <<n, id, k>>; n is 0 for the root Menu.  A panic (todo!(), unreachable!(), an index out of   *)
(* range, a RefCell borrow failure) ends the call where it happens, keeps  *)
(* what the call had already written, and is recorded in `panic`; no       *)
(* further call is made after a panic.                                     *)
(***************************************************************************)
EXTENDS Naturals, Integers, Sequences, FiniteSets, TLC

\* ---------------------------------------------------------------- bounds
\* The number of nodes the application constructs.
MaxNodes == 2
\* The total number of entries in all `children` vectors.
MaxEdges == 2
\* The number of events the channel holds before activations stop.
MaxEvents == 2
\* The length of the labels converted to GTK mnemonics and back.
MaxLen == 4
\* The handles the application creates (constructor results and clones).
MaxHandles == 3
\* The appends the UI thread makes while a reader walks the projection.
MaxAppends == 3

\* ------------------------------------------------------------- constants
\* mod.rs:28  const DEFAULT_ACTION: &str = "_internal_sendEvent";
DEFAULT_ACTION == "_internal_sendEvent"
\* mod.rs:29  const DEFAULT_ACTION_GROUP: &str = "muda";
DEFAULT_ACTION_GROUP == "muda"

\* The windows of the host program and the application objects they may
\* belong to.  NoApp is window.application() == None, NoWin "no window".
Windows == {"w1", "w2"}
Apps == {"app1"}
NoApp == "noapp"
NoWin == "nowin"
\* Every window of the process: "w3" is a window that the allocator has put
\* 4 GiB above "w1".
HostWindows == Windows \cup {"w3"}

\* window.as_ptr(): the 64-bit address of the native window object, as
\* [hi, lo]: the address is hi * 2^32 + lo.
WindowPtr(w) == CASE w = "w1" -> [hi |-> 21845, lo |-> 4096]
                  [] w = "w2" -> [hi |-> 21845, lo |-> 8192]
                  [] OTHER -> [hi |-> 21846, lo |-> 4096]

\* `as u32` of a 64-bit value keeps its low 32 bits.
AsU32(p) == p.lo

\* mod.rs:157  let id = window.as_ptr() as u32;
WindowId(w) == AsU32(WindowPtr(w))

\* Ids the caller may pass to the with_id constructors.
UserIds == {"quit", DEFAULT_ACTION}

\* Texts the caller may pass: strings as sequences of characters.
Texts == { <<"&", "a">> }

\* MenuItemType
Submenu == "Submenu"
MenuItem == "MenuItem"
Predefined == "Predefined"
Check == "Check"
Icon == "Icon"

NoPanic == "none"

\* The name of a gio object: held by the k-th instance that node n (0: the
\* root Menu) keeps under the key id.
Ref(n, id, k) == <<n, id, k>>
\* No gio::Menu / no action.
NoRef == Ref(0, 0, 0)
\* The default action of the application's action group.
DefaultActionRef == Ref(0, 0, 1)

\* ------------------------------------------------------------- utilities
EmptyMap == [x \in {} |-> <<>>]

\* HashMap::insert
Put(f, k, v) == [x \in (DOMAIN f) \cup {k} |-> IF x = k THEN v ELSE f[x]]

\* HashMap::entry(k).or_default().push(v)
PushAt(f, k, v) == Put(f, k, IF k \in DOMAIN f THEN Append(f[k], v) ELSE <<v>>)

\* Vec::insert(i, x) for i <= len (0-based index i)
InsertAt(s, i, x) == SubSeq(s, 1, i) \o <<x>> \o SubSeq(s, i + 1, Len(s))

\* All orders in which a HashMap with key set S may be iterated.
Orders(S) == { o \in [1..Cardinality(S) -> S] : \A i, j \in 1..Cardinality(S) : i # j => o[i] # o[j] }

RECURSIVE SumLen(_, _)
SumLen(f, S) == IF S = {} THEN 0
                ELSE LET x == CHOOSE y \in S : TRUE
                     IN Len(f[x]) + SumLen(f, S \ {x})

\* --------------------------------------------------- mnemonic conversion
IsPrefix(p, s) == Len(p) <= Len(s) /\ SubSeq(s, 1, Len(p)) = p

\* str::replace(pat, rep): non-overlapping matches, left to right
RECURSIVE Replace(_, _, _)
Replace(s, pat, rep) ==
    IF s = <<>> THEN <<>>
    ELSE IF IsPrefix(pat, s) THEN rep \o Replace(SubSeq(s, Len(pat) + 1, Len(s)), pat, rep)
    ELSE <<Head(s)>> \o Replace(Tail(s), pat, rep)

\* accelerator.rs:10-21
to_gtk_mnemonic(s) ==
    Replace(Replace(Replace(Replace(s, <<"_">>, <<"_", "_">>),
                            <<"&", "&">>, <<"[", "~", "~", "]">>),
                    <<"&">>, <<"_">>),
            <<"[", "~", "~", "]">>, <<"&">>)

\* accelerator.rs:28-39
from_gtk_mnemonic(s) ==
    Replace(Replace(Replace(Replace(s, <<"&">>, <<"&", "&">>),
                            <<"_", "_">>, <<"[", "~", "~", "]">>),
                    <<"_">>, <<"&">>),
            <<"[", "~", "~", "]">>, <<"_">>)

\* ----------------------------------------------------------------- state
VARIABLES
    counter,   \* COUNTER: the value the next COUNTER.next() returns
    menu,      \* the root Menu
    nodes,     \* heap of MenuChild (the Rc<RefCell<MenuChild>> cells)
    gmenus,    \* heap of gio::Menu: each the sequence of its items
    actions,   \* heap of gio::SimpleAction
    appData,   \* per application: the action group under ACTION_GROUP_DATA_KEY
    winApp,    \* window.application() of every window
    winGroup,  \* per window: whose action group is inserted as "muda"
    events,    \* the MenuEvent channel
    ret,       \* what the last call into the library returned
    panic,     \* the panic that ended the program, or NoPanic
    mn,        \* a label under conversion: the text given, the text now, the stage
    handles,   \* the item handles the application holds and the Rc<MenuId> cells they share
    rd,        \* the reader of the published projection, with the projections that existed
    winOpen    \* per window address: whether a window lives there

vars == <<counter, menu, nodes, gmenus, actions, appData, winApp, winGroup, events, ret,
          panic, mn, handles, rd, winOpen>>

\* The part of the state a call into the library reads and writes, as one
\* record, so that nested calls can thread it.
Cur == [counter |-> counter, menu |-> menu, nodes |-> nodes, gmenus |-> gmenus,
        actions |-> actions, appData |-> appData, winGroup |-> winGroup,
        panic |-> panic]

Commit(st) ==
    /\ counter' = st.counter
    /\ menu' = st.menu
    /\ nodes' = st.nodes
    /\ gmenus' = st.gmenus
    /\ actions' = st.actions
    /\ appData' = st.appData
    /\ winGroup' = st.winGroup
    /\ panic' = st.panic

Panicked(st, why) == [st EXCEPT !.panic = why]

\* util::Counter::next: returns the current value and increments.
CounterNext(st) == [st EXCEPT !.counter = @ + 1]

\* MenuId(COUNTER.next().to_string())
IdFromCounter(n) == ToString(n)

\* ------------------------------------------------------- backend objects
\* A gio::MenuItem as stored in a gio::Menu (append_item/insert_item copy the
\* item's attributes and links).  `action` and `target` are the parsed
\* detailed action ("muda.<action>::<target>"), <<>> when absent; `link` is
\* the gio::Menu of a submenu item, NoRef when absent; `node` records the
\* MenuChild whose create_gtk_item_* built the item.
GioItem(label, action, target, link, icon, n) ==
    [label |-> label, action |-> action, target |-> target, link |-> link,
     icon |-> icon, node |-> n]

NoItem == GioItem(<<>>, <<>>, <<>>, NoRef, FALSE, 0)

\* mod.rs:288-307  enum GtkMenuChild
GtkMenuChild(variant, id, item, m, app, action) ==
    [variant |-> variant, id |-> id, item |-> item, menu |-> m, app |-> app,
     action |-> action, parent |-> NoWin, visible |-> FALSE]

\* mod.rs:33-57  enum GtkMenuBar, GtkMenuBar::new, GtkMenuBar::new_context
GtkMenuBar(variant, m, app, win) ==
    [variant |-> variant, menu |-> m, app |-> app, win |-> win,
     parent |-> NoWin, placed |-> "nowhere", visible |-> FALSE]

\* No projection record.
NoProjection == [kind |-> "None"]

\* Option<Accelerator>::None
NoAccelerator == "None"

\* mod.rs:358-373  struct MenuChild, with the handle that owns the cell:
\* `ctor` is the constructor that built it, `given` the id it was given
\* (<<>> for none), `hid` the id the handle keeps, `compat` the
\* projection record the handle has published (its ArcSwap) and `kind` the
\* PredefinedMenuItemKind of a predefined item.
MenuChild(id, text, enabled, checked, icon, type, ctx, ctor) ==
    [id |-> id, text |-> text, enabled |-> enabled, checked |-> checked,
     icon |-> icon, type_ |-> type, ctx_menu_id |-> ctx,
     instances |-> EmptyMap, children |-> <<>>, ctor |-> ctor,
     given |-> <<>>, hid |-> id, compat |-> NoProjection,
     accelerator |-> NoAccelerator, kind |-> "None"]

\* gio::Menu::append_item / insert_item(position, item): a position past the
\* end appends.
PutItem(items, op, item) ==
    IF op.kind = "Append" \/ op.pos > Len(items) THEN Append(items, item)
    ELSE InsertAt(items, op.pos, item)

\* The keys of a map in increasing order.
RECURSIVE SortedKeys(_)
SortedKeys(S) ==
    IF S = {} THEN <<>>
    ELSE LET k == CHOOSE x \in S : \A y \in S : x <= y
         IN <<k>> \o SortedKeys(S \ {k})

\* The name of what the next GtkMenuChild pushed under menu_id will hold.
NextRef(node, n, menu_id) ==
    Ref(n, menu_id, IF menu_id \in DOMAIN node.instances
                    THEN Len(node.instances[menu_id]) + 1 ELSE 1)

\* A lookup that never finds the group stored on the application.
action_group_from_app_AlwaysNew(st, app) ==
    [st EXCEPT !.actions = Put(@, DefaultActionRef,
                               [name |-> DEFAULT_ACTION, ptype |-> "s", state |-> <<>>,
                                handler |-> "activate", id |-> <<>>]),
               !.appData[app] = [set |-> TRUE, acts |-> (DEFAULT_ACTION :> DefaultActionRef),
                                 groups |-> st.appData[app].groups + 1]]

\* mod.rs:747-771  action_group_from_app; `groups` counts the
\* gio::SimpleActionGroup::new() calls made for the application (mod.rs:754).
action_group_from_app(st, app) ==
    IF st.appData[app].set THEN st
    ELSE LET a == DefaultActionRef
             action == [name |-> DEFAULT_ACTION, ptype |-> "s", state |-> <<>>,
                        handler |-> "activate", id |-> <<>>]
         IN [st EXCEPT !.actions = Put(@, a, action),
                       !.appData[app] = [set |-> TRUE, acts |-> (DEFAULT_ACTION :> a),
                                         groups |-> st.appData[app].groups + 1]]

\* A plain item whose detailed action carries the action's name as target.
create_gtk_item_for_menu_item_WrongTarget(st, n, menu_id) ==
    LET self == st.nodes[n]
        item == GioItem(to_gtk_mnemonic(self.text), <<DEFAULT_ACTION>>, <<DEFAULT_ACTION>>,
                        NoRef, FALSE, n)
        child == GtkMenuChild("Item", 0, item, NoRef, NoApp, NoRef)
    IN [st |-> [st EXCEPT !.nodes[n].instances = PushAt(@, menu_id, child)],
        item |-> item]

\* mod.rs:541-551  MenuChild::create_gtk_item_for_menu_item
create_gtk_item_for_menu_item(st, n, menu_id) ==
    LET self == st.nodes[n]
        item == GioItem(to_gtk_mnemonic(self.text), <<DEFAULT_ACTION>>, <<self.id>>, NoRef, FALSE, n)
        child == GtkMenuChild("Item", 0, item, NoRef, NoApp, NoRef)
    IN [st |-> [st EXCEPT !.nodes[n].instances = PushAt(@, menu_id, child)],
        item |-> item]

\* mod.rs:707-721  MenuChild::create_gtk_item_for_icon_menu_item
create_gtk_item_for_icon_menu_item(st, n, menu_id) ==
    LET self == st.nodes[n]
        item == GioItem(to_gtk_mnemonic(self.text), <<DEFAULT_ACTION>>, <<self.id>>, NoRef, self.icon, n)
        child == GtkMenuChild("Item", 0, item, NoRef, NoApp, NoRef)
    IN [st |-> [st EXCEPT !.nodes[n].instances = PushAt(@, menu_id, child)],
        item |-> item]

\* mod.rs:621-648  MenuChild::create_gtk_item_for_check_menu_item
\* SimpleActionGroup::add_action replaces an action of the same name.
create_gtk_item_for_check_menu_item(st, n, app, menu_id) ==
    LET self == st.nodes[n]
        item == GioItem(to_gtk_mnemonic(self.text), <<self.id>>, <<>>, NoRef, FALSE, n)
        st1 == action_group_from_app(st, app)
        a == NextRef(self, n, menu_id)
        action == [name |-> self.id, ptype |-> "none", state |-> <<self.checked>>,
                   handler |-> "state_notify", id |-> <<self.id>>]
        child == GtkMenuChild("CheckItem", 0, item, NoRef, NoApp, a)
    IN [st |-> [st1 EXCEPT !.actions = Put(@, a, action),
                           !.appData[app].acts = Put(@, self.id, a),
                           !.nodes[n].instances = PushAt(@, menu_id, child)],
        item |-> item]

\* The GtkMenuChild values of node n whose id() is `id`, as the containers
\* a child is added to: mod.rs:440-441 (the filter of add_menu_item_with_id).
RECURSIVE ChildrenOfKeys(_, _)
ChildrenOfKeys(insts, keys) ==
    IF keys = <<>> THEN <<>>
    ELSE insts[Head(keys)] \o ChildrenOfKeys(insts, Tail(keys))

Target(c) == [app |-> c.app, id |-> c.id, menu |-> c.menu]

ChildTargets(node, keys) ==
    LET cs == ChildrenOfKeys(node.instances, keys)
    IN [i \in 1..Len(cs) |-> Target(cs[i])]

ChildTargetsWithId(node, id) ==
    SelectSeq(ChildTargets(node, SortedKeys(DOMAIN node.instances)), LAMBDA t : t.id = id)

RECURSIVE make_gtk_menu_item(_, _, _, _, _)
RECURSIVE create_gtk_item_for_submenu(_, _, _, _, _)
RECURSIVE AddToTargets(_, _, _, _, _)
RECURSIVE AddItemsWithId(_, _, _, _, _)

\* The loop bodies of mod.rs:116-122, 128-131, 423-434, 440-445: item c is
\* materialized once per container and the gio item put into its gio::Menu.
\* `borrowed` is the set of RefCells mutably borrowed by the callers.
AddToTargets(st, c, targets, op, borrowed) ==
    IF targets = <<>> \/ st.panic # NoPanic THEN st
    ELSE LET t == Head(targets)
             r == make_gtk_menu_item(st, c, t.app, t.id, borrowed)
         IN IF r.st.panic # NoPanic THEN r.st
            ELSE AddToTargets([r.st EXCEPT !.gmenus[t.menu] = PutItem(@, op, r.item)],
                              c, Tail(targets), op, borrowed)

\* mod.rs:410-412 / 490-492: for item in self.items() { self.add_menu_item_with_id(item, id) }
AddItemsWithId(st, n, kids, id, borrowed) ==
    IF kids = <<>> \/ st.panic # NoPanic THEN st
    ELSE AddItemsWithId(
             AddToTargets(st, Head(kids), ChildTargetsWithId(st.nodes[n], id),
                          [kind |-> "Append"], borrowed),
             n, Tail(kids), id, borrowed)

\* mod.rs:454-459  MenuChild::items: c.borrow() of every child; a child that
\* is mutably borrowed makes RefCell::borrow panic.
ItemsPanics(kids, borrowed) == \E i \in 1..Len(kids) : kids[i] \in borrowed

\* mod.rs:391-415  MenuChild::create_gtk_item_for_submenu
create_gtk_item_for_submenu(st, n, app, menu_id, borrowed) ==
    LET self == st.nodes[n]
        m == NextRef(self, n, menu_id)
        item == GioItem(to_gtk_mnemonic(self.text), <<>>, <<>>, m, FALSE, n)
        id == st.counter
        child == GtkMenuChild("Submenu", id, item, m, app, NoRef)
        st1 == [CounterNext(st) EXCEPT !.gmenus = Put(@, m, <<>>),
                                       !.nodes[n].instances = PushAt(@, menu_id, child)]
        st2 == IF ItemsPanics(self.children, borrowed \cup {n})
               THEN Panicked(st1, "already mutably borrowed")
               ELSE AddItemsWithId(st1, n, self.children, id, borrowed \cup {n})
    IN [st |-> st2, item |-> item]

\* mod.rs:726-745  <dyn IsMenuItem>::make_gtk_menu_item
make_gtk_menu_item(st, n, app, menu_id, borrowed) ==
    IF n \in borrowed THEN [st |-> Panicked(st, "already borrowed"), item |-> NoItem]
    ELSE CASE st.nodes[n].type_ = Submenu -> create_gtk_item_for_submenu(st, n, app, menu_id, borrowed)
           [] st.nodes[n].type_ = MenuItem -> create_gtk_item_for_menu_item(st, n, menu_id)
           [] st.nodes[n].type_ = Check -> create_gtk_item_for_check_menu_item(st, n, app, menu_id)
           [] st.nodes[n].type_ = Icon -> create_gtk_item_for_icon_menu_item(st, n, menu_id)
           [] OTHER -> [st |-> Panicked(st, "not yet implemented"), item |-> NoItem]

\* ---------------------------------------------------------- constructors
\* A constructor call: which constructor, the explicit id (<<>> for None),
\* and the arguments.
Ctor(name, id, text, enabled, checked, icon) ==
    [ctor |-> name, id |-> id, text |-> text, enabled |-> enabled,
     checked |-> checked, icon |-> icon, kind |-> "Separator"]

\* A predefined constructor call (predefined.rs:60-210): the kind and the
\* text given, <<>> for None and <<t>> for Some(t).
CtorPredefined(kind, text) ==
    [Ctor("PredefinedMenuItem", <<>>, text, TRUE, FALSE, FALSE) EXCEPT !.kind = kind]

\* predefined.rs:324-356  PredefinedMenuItemKind::text (not macos, not windows)
PredefinedText(kind) ==
    CASE kind = "Copy" -> <<"&", "C", "o", "p", "y">>
      [] kind = "Quit" -> <<"&", "Q", "u", "i", "t">>
      [] kind = "CloseWindow" -> <<"C", "&", "l", "o", "s", "e", " ", "W", "i", "n", "d", "o", "w">>
      [] OTHER -> <<>>

\* predefined.rs:358-399  PredefinedMenuItemKind::accelerator (not macos)
PredefinedAccelerator(kind) ==
    CASE kind = "Copy" -> "CmdOrCtrl+KeyC"
      [] kind = "CloseWindow" -> "Alt+F4"
      [] OTHER -> NoAccelerator

\* An id taken from the counter without advancing it.
UnwrapId_NoAdvance(st, id) ==
    IF id # <<>> THEN [st |-> st, id |-> id[1]]
    ELSE [st |-> st, id |-> IdFromCounter(st.counter)]

\* id.unwrap_or_else(|| MenuId(COUNTER.next().to_string())): the id and
\* the state after it.
UnwrapId(st, id) ==
    IF id # <<>> THEN [st |-> st, id |-> id[1]]
    ELSE [st |-> CounterNext(st), id |-> IdFromCounter(st.counter)]

Alloc(st, node) == [st EXCEPT !.nodes = Append(@, node)]

\* mod.rs:376-389  MenuChild::new_submenu
new_submenu(st, c) ==
    LET r == UnwrapId(st, c.id)
    IN Alloc(CounterNext(r.st),
             MenuChild(r.id, c.text, c.enabled, FALSE, FALSE, Submenu, r.st.counter, c.ctor))

\* mod.rs:521-539  MenuChild::new
new(st, c) ==
    LET r == UnwrapId(st, c.id)
    IN Alloc(r.st, MenuChild(r.id, c.text, c.enabled, FALSE, FALSE, MenuItem, 0, c.ctor))

\* mod.rs:583-596  MenuChild::new_predefined (predefined.rs:212-216, 324-326:
\* the separator's text is "")
new_predefined(st, c) ==
    LET r == UnwrapId(st, <<>>)
        text == IF c.text = <<>> THEN PredefinedText(c.kind) ELSE c.text[1]
    IN Alloc(r.st, [MenuChild(r.id, text, TRUE, FALSE, FALSE, Predefined, 0, c.ctor)
                       EXCEPT !.accelerator = NoAccelerator])

\* mod.rs:600-619  MenuChild::new_check
new_check(st, c) ==
    LET r == UnwrapId(st, c.id)
    IN Alloc(r.st, MenuChild(r.id, c.text, c.enabled, c.checked, FALSE, Check, 0, c.ctor))

\* mod.rs:665-684  MenuChild::new_icon
new_icon(st, c) ==
    LET r == UnwrapId(st, c.id)
    IN Alloc(r.st, MenuChild(r.id, c.text, c.enabled, FALSE, c.icon, Icon, 0, c.ctor))

\* mod.rs:686-705  MenuChild::new_native_icon
new_native_icon(st, c) ==
    LET r == UnwrapId(st, c.id)
    IN Alloc(r.st, MenuChild(r.id, c.text, c.enabled, FALSE, FALSE, Submenu, 0, c.ctor))

\* compat.rs:117-119  strip_accelerator: text.replace('&', "")
strip_accelerator(s) == Replace(s, <<"&">>, <<>>)

\* compat.rs:58-115  impl From<MenuItemKind> for CompatMenuItem: the
\* projection record computed from the item's getters.
CompatFrom(node) ==
    CASE node.ctor = "MenuItem" ->
             [kind |-> "Standard", id |-> node.hid, label |-> strip_accelerator(node.text),
              enabled |-> node.enabled, icon |-> FALSE]
      [] node.ctor = "CheckMenuItem" ->
             [kind |-> "Checkmark", id |-> node.hid, label |-> strip_accelerator(node.text),
              enabled |-> node.enabled, checked |-> node.checked]
      [] node.ctor \in {"IconMenuItem", "IconMenuItem::with_native_icon"} ->
             [kind |-> "Standard", id |-> node.hid, label |-> strip_accelerator(node.text),
              enabled |-> node.enabled, icon |-> node.icon]
      [] node.ctor = "PredefinedMenuItem" ->
             IF node.kind = "Separator" THEN [kind |-> "Separator"]
             ELSE [kind |-> "Standard", id |-> node.hid, label |-> strip_accelerator(node.text),
                   enabled |-> TRUE, icon |-> FALSE, predefined |-> node.kind]
      [] OTHER -> [kind |-> "SubMenu", label |-> strip_accelerator(node.text),
                   enabled |-> node.enabled]

\* strip_mnemonic: "&&" stands for a literal "&", a single "&" marks the
\* mnemonic and is removed.
strip_mnemonic(s) ==
    Replace(Replace(Replace(s, <<"&", "&">>, <<"[", "~", "~", "]">>), <<"&">>, <<>>),
            <<"[", "~", "~", "]">>, <<"&">>)

\* compat.rs:24-29  CompatSubMenuItem of a Submenu handle: `submenu` holds
\* the cells (Arc<ArcSwap<CompatMenuItem>>) of the children, named by node.
SubmenuProjection(node) ==
    [kind |-> "SubMenu", label |-> strip_mnemonic(node.text), enabled |-> node.enabled,
     submenu |-> node.children]

\* compat_menu_item of the handle of `node`: normal.rs:41-54, check.rs:45-56,
\* icon.rs:49-64, predefined.rs:45-72 (the separator).
compat_menu_item(node) ==
    CASE node.ctor = "MenuItem" ->
             [kind |-> "Standard", id |-> node.id, label |-> strip_mnemonic(node.text),
              enabled |-> node.enabled, icon |-> FALSE]
      [] node.ctor = "CheckMenuItem" ->
             [kind |-> "Checkmark", id |-> node.id, label |-> strip_mnemonic(node.text),
              enabled |-> node.enabled, checked |-> node.checked]
      [] node.ctor \in {"IconMenuItem", "IconMenuItem::with_native_icon"} ->
             [kind |-> "Standard", id |-> node.id, label |-> strip_mnemonic(node.text),
              enabled |-> node.enabled, icon |-> node.icon]
      [] node.ctor = "PredefinedMenuItem" ->
             IF node.kind = "Separator" THEN [kind |-> "Separator"]
             ELSE [kind |-> "Standard", id |-> node.id, label |-> strip_mnemonic(node.text),
                   enabled |-> TRUE, icon |-> FALSE, predefined |-> node.kind]
      [] OTHER -> SubmenuProjection(node)

\* self.compat.store(Arc::new(Self::compat_menu_item(&inner))) after the
\* call on the cell has returned (normal.rs:119-120, 136-137, check.rs:135-136,
\* 152-153, 182-186, icon.rs:209-210, 226-227, 248-249).
Publish(st, n) ==
    IF st.panic # NoPanic THEN st
    ELSE [st EXCEPT !.nodes[n].compat = compat_menu_item(st.nodes[n])]

\* normal.rs:66-73, 92-99 (check.rs:80-85, 110-115, icon.rs:88-93, 122-127,
\* 153-158, 185-190): the handle around the cell just built keeps the id
\* given (with_id: Rc::new(id)) or a copy of the cell's id (new:
\* Rc::new(inner.id().clone())).
Handle(st, c) ==
    [st EXCEPT !.nodes[Len(st.nodes)] =
        [@ EXCEPT !.given = c.id,
                  !.hid = IF c.id # <<>> THEN c.id[1] ELSE st.nodes[Len(st.nodes)].id,
                  !.kind = IF c.ctor = "PredefinedMenuItem" THEN c.kind ELSE "None",
                  !.compat = compat_menu_item([st.nodes[Len(st.nodes)] EXCEPT
                                 !.kind = IF c.ctor = "PredefinedMenuItem" THEN c.kind ELSE "None"])]]

\* The handle constructors of items/*.rs, each calling its MenuChild
\* constructor: normal.rs:59-100, check.rs:60-116, icon.rs:70-190,
\* predefined.rs:212-227, and Submenu::new / Submenu::with_id.
Construct(st, c) ==
    Handle(CASE c.ctor = "Submenu" -> new_submenu(st, c)
             [] c.ctor = "MenuItem" -> new(st, c)
             [] c.ctor = "CheckMenuItem" -> new_check(st, c)
             [] c.ctor = "IconMenuItem" -> new_icon(st, c)
             [] c.ctor = "IconMenuItem::with_native_icon" -> new_native_icon(st, c)
             [] OTHER -> new_predefined(st, c),
           c)

\* ------------------------------------------------------------------ Menu
AppendOp == [kind |-> "Append", pos |-> 0]
InsertOp(i) == [kind |-> "Insert", pos |-> i]

\* Vec::push / Vec::insert (mod.rs:111-114, 418-421)
AddChild(children, n, op) ==
    IF op.kind = "Append" THEN Append(children, n) ELSE InsertAt(children, op.pos, n)

BarTargets(instances, ord) ==
    [i \in 1..Len(ord) |-> [app |-> instances[ord[i]].app, id |-> ord[i],
                            menu |-> instances[ord[i]].menu]]

\* mod.rs:110-125  Menu::add_menu_item; `ord` is the order in which the
\* HashMap self.instances is iterated.  Vec::insert panics when index > len.
Menu_add_menu_item(st, n, op, ord) ==
    IF op.kind = "Insert" /\ op.pos > Len(st.menu.children)
    THEN Panicked(st, "insertion index out of bounds")
    ELSE AddToTargets([st EXCEPT !.menu.children = AddChild(@, n, op)],
                      n, BarTargets(st.menu.instances, ord), op, {})

\* An add_menu_item_with_id that goes through add_menu_item and so pushes
\* the item onto self.children once more.
Menu_add_menu_item_with_id_Pushing(st, n, id) ==
    Menu_add_menu_item(st, n, AppendOp,
                       IF id \in DOMAIN st.menu.instances THEN <<id>> ELSE <<>>)

\* mod.rs:127-134  Menu::add_menu_item_with_id
Menu_add_menu_item_with_id(st, n, id) ==
    AddToTargets(st, n,
                 BarTargets(st.menu.instances,
                            IF id \in DOMAIN st.menu.instances THEN <<id>> ELSE <<>>),
                 AppendOp, {})

\* mod.rs:174-176 / 259-261: for item in self.items() { self.add_menu_item_with_id(..) }
RECURSIVE Menu_add_items_with_id(_, _, _)
Menu_add_items_with_id(st, kids, id) ==
    IF kids = <<>> \/ st.panic # NoPanic THEN st
    ELSE Menu_add_items_with_id(Menu_add_menu_item_with_id(st, Head(kids), id), Tail(kids), id)

\* An entry test that takes every key for vacant.
EntryVacant_Always(instances, id) == TRUE

\* mod.rs:165-169: the Entry::Vacant test of init_for_gtk_window
EntryVacant(instances, id) == id \notin DOMAIN instances

\* mod.rs:178-197: where the menu bar widget is put, by the container given
Place(bar, container) ==
    [bar EXCEPT !.placed = CASE container = "None" -> "window.set_child"
                             [] container = "GtkBox" -> "box.prepend"
                             [] container = "GtkFixed" -> "fixed.put"
                             [] container = "GtkStack" -> "stack.add_child"
                             [] OTHER -> "nowhere",
                !.visible = TRUE]

\* An attachment that registers the window's entry before it asks for the
\* window's application.
Menu_init_for_gtk_window_EntryFirst(st, w, app, container) ==
    LET id == WindowId(w)
        m == Ref(0, id, 1)
        st1 == [st EXCEPT !.gmenus = Put(@, m, <<>>),
                          !.menu.instances = Put(@, id, GtkMenuBar("MenuBar", m, app, w))]
    IN IF ~EntryVacant(st.menu.instances, id) THEN [st |-> st, ret |-> "AlreadyInitialized"]
       ELSE IF app = NoApp THEN [st |-> st1, ret |-> "GtkWindowWithoutApplication"]
       ELSE LET st2 == [action_group_from_app(st1, app) EXCEPT !.winGroup[w] = app]
                st3 == Menu_add_items_with_id(st2, st2.menu.children, id)
            IN IF st3.panic # NoPanic THEN [st |-> st3, ret |-> "panic"]
               ELSE [st |-> [st3 EXCEPT !.menu.instances[id] = Place(@, container)],
                     ret |-> "Ok"]

\* mod.rs:147-200  Menu::init_for_gtk_window: the state after and the result
Menu_init_for_gtk_window(st, w, app, container) ==
    LET id == WindowId(w)
    IN IF app = NoApp THEN [st |-> st, ret |-> "GtkWindowWithoutApplication"]
       ELSE IF ~EntryVacant(st.menu.instances, id) THEN [st |-> st, ret |-> "AlreadyInitialized"]
       ELSE LET m == Ref(0, id, 1)
                st1 == [st EXCEPT !.gmenus = Put(@, m, <<>>),
                                  !.menu.instances = Put(@, id, GtkMenuBar("MenuBar", m, app, w))]
                st2 == [action_group_from_app(st1, app) EXCEPT !.winGroup[w] = app]
                st3 == Menu_add_items_with_id(st2, st2.menu.children, id)
            IN IF st3.panic # NoPanic THEN [st |-> st3, ret |-> "panic"]
               ELSE [st |-> [st3 EXCEPT !.menu.instances[id] = Place(@, container)],
                     ret |-> "Ok"]

\* gtk_widget_set_parent leaves a widget that has a parent where it is;
\* PopoverMenu::popup shows it.
Popup(widget, w) ==
    [widget EXCEPT !.parent = IF @ = NoWin THEN w ELSE @, !.visible = TRUE]

\* A show that builds the popup before it asks for the window's
\* application.
Menu_show_context_menu_PopupFirst(st, w, app) ==
    LET ctx == st.menu.ctx_menu_id
        m == Ref(0, ctx, 1)
        st1 == [st EXCEPT !.gmenus = Put(@, m, <<>>),
                          !.menu.instances = Put(@, ctx, GtkMenuBar("ContextMenu", m, app, NoWin))]
        st2 == IF ctx \in DOMAIN st.menu.instances THEN st ELSE st1
    IN IF app = NoApp THEN [st |-> st2, ret |-> "false"]
       ELSE [st |-> [st2 EXCEPT !.menu.instances[ctx] = Popup(@, w)], ret |-> "true"]

\* mod.rs:238-285  Menu::show_context_menu_for_gtk_window
Menu_show_context_menu(st, w, app) ==
    LET ctx == st.menu.ctx_menu_id
    IN IF app = NoApp THEN [st |-> st, ret |-> "false"]
       ELSE LET m == Ref(0, ctx, 1)
                st1 == [action_group_from_app(st, app) EXCEPT
                            !.winGroup[w] = app,
                            !.gmenus = Put(@, m, <<>>),
                            !.menu.instances = Put(@, ctx, GtkMenuBar("ContextMenu", m, app, NoWin))]
                st2 == IF ctx \in DOMAIN st.menu.instances THEN st
                       ELSE Menu_add_items_with_id(st1, st1.menu.children, ctx)
            IN IF st2.panic # NoPanic THEN [st |-> st2, ret |-> "panic"]
               ELSE IF st2.menu.instances[ctx].variant # "ContextMenu"
               THEN [st |-> Panicked(st2, "unreachable"), ret |-> "panic"]
               ELSE [st |-> [st2 EXCEPT !.menu.instances[ctx] = Popup(@, w)], ret |-> "true"]

\* ------------------------------------------------------------- MenuChild
\* mod.rs:417-437  MenuChild::add_menu_item on node p (which the caller has
\* mutably borrowed); `ord` is the iteration order of p's instances.
MenuChild_add_menu_item(st, p, n, op, ord) ==
    IF op.kind = "Insert" /\ op.pos > Len(st.nodes[p].children)
    THEN Panicked(st, "insertion index out of bounds")
    ELSE AddToTargets([st EXCEPT !.nodes[p].children = AddChild(@, n, op)],
                      n, ChildTargets(st.nodes[p], ord), op, {p})

\* mod.rs:461-517  MenuChild::show_context_menu_for_gtk_window on node p
MenuChild_show_context_menu(st, p, w, app) ==
    LET ctx == st.nodes[p].ctx_menu_id
    IN IF app = NoApp THEN [st |-> st, ret |-> "false"]
       ELSE LET m == Ref(p, ctx, 1)
                child == GtkMenuChild("ContextMenu", ctx, NoItem, m, app, NoRef)
                st1 == [action_group_from_app(st, app) EXCEPT
                            !.winGroup[w] = app,
                            !.gmenus = Put(@, m, <<>>),
                            !.nodes[p].instances = Put(@, ctx, <<child>>)]
                st2 == IF ctx \in DOMAIN st.nodes[p].instances THEN st
                       ELSE IF ItemsPanics(st1.nodes[p].children, {p})
                       THEN Panicked(st1, "already mutably borrowed")
                       ELSE AddItemsWithId(st1, p, st1.nodes[p].children, ctx, {p})
            IN IF st2.panic # NoPanic THEN [st |-> st2, ret |-> "panic"]
               ELSE IF st2.nodes[p].instances[ctx] = <<>>
                       \/ st2.nodes[p].instances[ctx][1].variant # "ContextMenu"
               THEN [st |-> Panicked(st2, "unreachable"), ret |-> "panic"]
               ELSE [st |-> [st2 EXCEPT !.nodes[p].instances[ctx][1] = Popup(@, w)],
                     ret |-> "true"]

\* ---------------------------------------------------------- event routing
\* MenuEvent::send: the event is put on the channel.
MenuEventSend(evs, id) == Append(evs, [id |-> id])

\* The gio items of gio::Menu m and of the submenus linked from it.
RECURSIVE ItemsUnder(_, _)
ItemsUnder(gm, m) ==
    {gm[m][i] : i \in 1..Len(gm[m])}
    \cup UNION {ItemsUnder(gm, gm[m][i].link) : i \in {j \in 1..Len(gm[m]) : gm[m][j].link # NoRef}}

\* The containers on screen: [win, menu, popup], popup being 0 for a menu
\* bar, -1 for the Menu's popup and the node for a submenu's popup.
BarsShown ==
    {[win |-> menu.instances[k].win, menu |-> menu.instances[k].menu, popup |-> 0] :
        k \in {x \in DOMAIN menu.instances :
                   /\ menu.instances[x].variant = "MenuBar"
                   /\ menu.instances[x].placed # "nowhere"}}

MenuPopupsShown ==
    {[win |-> menu.instances[k].parent, menu |-> menu.instances[k].menu, popup |-> -1] :
        k \in {x \in DOMAIN menu.instances :
                   /\ menu.instances[x].variant = "ContextMenu"
                   /\ menu.instances[x].visible
                   /\ menu.instances[x].parent # NoWin}}

HasPopup(p) ==
    /\ nodes[p].ctx_menu_id \in DOMAIN nodes[p].instances
    /\ nodes[p].instances[nodes[p].ctx_menu_id] # <<>>
    /\ nodes[p].instances[nodes[p].ctx_menu_id][1].variant = "ContextMenu"

PopupOf(p) == nodes[p].instances[nodes[p].ctx_menu_id][1]

NodePopupsShown ==
    {[win |-> PopupOf(p).parent, menu |-> PopupOf(p).menu, popup |-> p] :
        p \in {x \in 1..Len(nodes) : HasPopup(x) /\ PopupOf(x).visible /\ PopupOf(x).parent # NoWin}}

Shown == BarsShown \cup MenuPopupsShown \cup NodePopupsShown

\* The action a gio item names, as the widgets of window w resolve it: the
\* group inserted into w as "muda" (mod.rs:172, 249, 475), NoRef when there
\* is no such action.
ResolveAction(w, it) ==
    LET g == winGroup[w]
    IN IF g = NoApp \/ it.action = <<>> THEN NoRef
       ELSE IF it.action[1] \in DOMAIN appData[g].acts THEN appData[g].acts[it.action[1]]
       ELSE NoRef

\* GTK activates an item only when its action exists and the item's target
\* has the action's parameter type.
Sensitive(w, it) ==
    /\ it.link = NoRef
    /\ ResolveAction(w, it) # NoRef
    /\ LET a == actions[ResolveAction(w, it)]
       IN (it.target # <<>>) <=> (a.ptype = "s")

\* The closed signal of a popup (mod.rs:253-255, 484-486): m.unparent().
Closed(widget) == [widget EXCEPT !.parent = NoWin, !.visible = FALSE]

ClosePopup(c) ==
    IF c.popup = 0 THEN UNCHANGED <<menu, nodes>>
    ELSE IF c.popup = -1
    THEN /\ menu' = [menu EXCEPT !.instances[menu.ctx_menu_id] = Closed(@)]
         /\ UNCHANGED nodes
    ELSE /\ nodes' = [nodes EXCEPT ![c.popup].instances[nodes[c.popup].ctx_menu_id][1] = Closed(@)]
         /\ UNCHANGED menu

\* mod.rs:757-763  the connect_activate closure of the default action: the
\* event's id is the activation's parameter.
connect_activate(evs, v) == IF v # <<>> THEN MenuEventSend(evs, v[1]) ELSE evs

\* A state_notify closure that sends its event twice.
connect_state_notify_Twice(evs, id) == MenuEventSend(MenuEventSend(evs, id), id)

\* mod.rs:635-638  the connect_state_notify closure of a check item's
\* action: the event's id is the id the closure holds.
connect_state_notify(evs, id) == MenuEventSend(evs, id)

\* The user activates the gio item `it` shown in the container c.  GTK
\* activates the action the item names with the item's target; activating
\* a stateful boolean action that has no activate handler toggles its
\* state, which notifies `state` once.  A popup closes.
ActivateItem(c, it) ==
    /\ panic = NoPanic
    /\ Len(events) < MaxEvents
    /\ Sensitive(c.win, it)
    /\ LET r == ResolveAction(c.win, it)
           a == actions[r]
       IN IF a.handler = "activate"
          THEN /\ events' = connect_activate(events, it.target)
               /\ UNCHANGED actions
          ELSE /\ actions' = [actions EXCEPT ![r].state = <<~a.state[1]>>]
               /\ events' = connect_state_notify(events, a.id[1])
    /\ ClosePopup(c)
    /\ UNCHANGED <<counter, gmenus, appData, winApp, winGroup, ret, panic, mn, handles, rd, winOpen>>

Activate == \E c \in Shown : \E it \in ItemsUnder(gmenus, c.menu) : ActivateItem(c, it)

\* The user dismisses a popup.
Dismiss ==
    /\ panic = NoPanic
    /\ \E c \in MenuPopupsShown \cup NodePopupsShown : ClosePopup(c)
    /\ UNCHANGED <<counter, gmenus, actions, appData, winApp, winGroup, events, ret, panic, mn, handles, rd, winOpen>>

\* ---------------------------------------------------------------- inputs
T1 == <<"&", "a">>

\* The constructor calls the application makes.
Ctors ==
    { Ctor("Submenu", <<>>, T1, TRUE, FALSE, FALSE),
      Ctor("MenuItem", <<"quit">>, T1, TRUE, FALSE, FALSE),
      Ctor("CheckMenuItem", <<>>, T1, TRUE, FALSE, FALSE),
      Ctor("PredefinedMenuItem", <<>>, <<>>, TRUE, FALSE, FALSE) }

\* The constructor calls of the items that send events.
CtorsEv ==
    { Ctor("Submenu", <<>>, T1, TRUE, FALSE, FALSE),
      Ctor("MenuItem", <<"quit">>, T1, TRUE, FALSE, FALSE),
      Ctor("CheckMenuItem", <<>>, T1, TRUE, TRUE, FALSE),
      Ctor("IconMenuItem", <<>>, T1, TRUE, FALSE, TRUE) }

\* The container arguments of init_for_gtk_window.
Containers == {"None"}

Nodes == 1..Len(nodes)

\* The nodes held by a Submenu handle (the handle with append/insert/remove
\* and show_context_menu_for_gtk_window).
SubmenuNodes == {p \in Nodes : nodes[p].ctor = "Submenu"}

Edges == Len(menu.children) + SumLen([p \in Nodes |-> nodes[p].children], Nodes)

\* ---------------------------------------------------------------- actions
\* The application holds no handle.
NoHandles == [hs |-> <<>>, rcs |-> <<>>]

\* No reader walks the projection.
NoReader == [pc |-> "idle", seen |-> <<>>, hist |-> {}]

\* No label is under conversion.
NoConversion == [input |-> <<>>, out |-> <<>>, stage |-> "none"]

Init ==
    /\ mn = NoConversion
    /\ handles = NoHandles
    /\ rd = NoReader
    /\ winOpen = [w \in HostWindows |-> TRUE]
    /\ counter = 3
    /\ menu = [id |-> IdFromCounter(1), instances |-> EmptyMap, ctx_menu_id |-> 2,
               children |-> <<>>]
    /\ nodes = <<>>
    /\ gmenus = EmptyMap
    /\ actions = EmptyMap
    /\ appData = [a \in Apps |-> [set |-> FALSE, acts |-> EmptyMap, groups |-> 0]]
    /\ winApp = [w \in HostWindows |-> "app1"]
    /\ winGroup = [w \in HostWindows |-> NoApp]
    /\ events = <<>>
    /\ ret = "Ok"
    /\ panic = NoPanic

Returns(r) ==
    /\ Commit(r.st)
    /\ ret' = r.ret
    /\ UNCHANGED <<winApp, events, mn, handles, rd, winOpen>>

Done(st) == Returns([st |-> st, ret |-> IF st.panic = NoPanic THEN "Ok" ELSE "panic"])

\* One of the constructors of items/*.rs
NewNode(c) ==
    /\ panic = NoPanic
    /\ Len(nodes) < MaxNodes
    /\ Done(Construct(Cur, c))

\* Menu::append(item)
MenuAppend(n) ==
    /\ panic = NoPanic
    /\ Edges < MaxEdges
    /\ \E ord \in Orders(DOMAIN menu.instances) :
           Done(Menu_add_menu_item(Cur, n, AppendOp, ord))

\* Menu::insert(item, i)
MenuInsert(n, i) ==
    /\ panic = NoPanic
    /\ Edges < MaxEdges
    /\ \E ord \in Orders(DOMAIN menu.instances) :
           Done(Menu_add_menu_item(Cur, n, InsertOp(i), ord))

\* Submenu::append(item) on the submenu p
SubmenuAppend(p, n) ==
    /\ panic = NoPanic
    /\ Edges < MaxEdges
    /\ \E ord \in Orders(DOMAIN nodes[p].instances) :
           Done(MenuChild_add_menu_item(Cur, p, n, AppendOp, ord))

\* Submenu::insert(item, i) on the submenu p
SubmenuInsert(p, n, i) ==
    /\ panic = NoPanic
    /\ Edges < MaxEdges
    /\ \E ord \in Orders(DOMAIN nodes[p].instances) :
           Done(MenuChild_add_menu_item(Cur, p, n, InsertOp(i), ord))

\* todo!(): the body of a function the backend does not implement yet
Todo == Done(Panicked(Cur, "not yet implemented"))

\* mod.rs:565-567  MenuChild::set_text: todo!()
MenuChild_set_text(st, n, s) == Panicked(st, "not yet implemented")

\* mod.rs:573-575  MenuChild::set_enabled: todo!()
MenuChild_set_enabled(st, n, b) == Panicked(st, "not yet implemented")

\* mod.rs:659-661  MenuChild::set_checked: todo!()
MenuChild_set_checked(st, n, b) == Panicked(st, "not yet implemented")

\* mod.rs:723  MenuChild::set_icon: pub fn set_icon(&self, icon: Option<Icon>) {}
MenuChild_set_icon(st, n, i) == st

\* mod.rs:136-138  Menu::remove
MenuRemove(n) ==
    /\ panic = NoPanic
    /\ Todo

\* mod.rs:450-452  MenuChild::remove
SubmenuRemove(p, n) ==
    /\ panic = NoPanic
    /\ Todo

\* normal.rs:115-124 (check.rs:131-140, icon.rs:205-214, predefined.rs:240-249)
\* set_text, calling mod.rs:565-567 MenuChild::set_text
SetText(n, s) ==
    /\ panic = NoPanic
    /\ Done(Publish(MenuChild_set_text(Cur, n, s), n))

\* normal.rs:132-141 (check.rs:148-157, icon.rs:222-231) set_enabled, calling
\* mod.rs:573-575 MenuChild::set_enabled
SetEnabled(n, b) ==
    /\ panic = NoPanic
    /\ nodes[n].ctor # "PredefinedMenuItem"
    /\ Done(Publish(MenuChild_set_enabled(Cur, n, b), n))

\* check.rs:170-188 CheckMenuItem::set_checked, calling mod.rs:659-661
SetChecked(n, b) ==
    /\ panic = NoPanic
    /\ nodes[n].ctor = "CheckMenuItem"
    /\ Done(Publish(MenuChild_set_checked(Cur, n, b), n))

\* icon.rs:244-253 IconMenuItem::set_icon, calling mod.rs:723
SetIcon(n, i) ==
    /\ panic = NoPanic
    /\ nodes[n].ctor \in {"IconMenuItem", "IconMenuItem::with_native_icon"}
    /\ Done(Publish(MenuChild_set_icon(Cur, n, i), n))

\* Menu::init_for_gtk_window(window, container)
InitForGtkWindow(w, container) ==
    /\ panic = NoPanic
    /\ Returns(Menu_init_for_gtk_window(Cur, w, winApp[w], container))

\* Menu::show_context_menu_for_gtk_window(window, position)
MenuShowContextMenu(w) ==
    /\ panic = NoPanic
    /\ Returns(Menu_show_context_menu(Cur, w, winApp[w]))

\* Submenu::show_context_menu_for_gtk_window(window, position)
SubmenuShowContextMenu(p, w) ==
    /\ panic = NoPanic
    /\ Returns(MenuChild_show_context_menu(Cur, p, w, winApp[w]))

\* The host program gives a window an application or takes it away
\* (gtk_window_set_application).
SetApplication(w, a) ==
    /\ panic = NoPanic
    /\ winOpen[w]
    /\ a # winApp[w]
    /\ winApp' = [winApp EXCEPT ![w] = a]
    /\ UNCHANGED <<counter, menu, nodes, gmenus, actions, appData, winGroup, events, ret, panic, mn, handles, rd, winOpen>>

\* The application builds the tree, attaches it to windows and calls the
\* mutators; the host program changes the windows' applications.
Next ==
    \/ \E c \in Ctors : NewNode(c)
    \/ \E n \in Nodes : MenuAppend(n)
    \/ \E n \in Nodes : \E i \in 0..(Len(menu.children) + 1) : MenuInsert(n, i)
    \/ \E p \in SubmenuNodes : \E n \in Nodes : SubmenuAppend(p, n)
    \/ \E p \in SubmenuNodes : \E n \in Nodes :
           \E i \in 0..(Len(nodes[p].children) + 1) : SubmenuInsert(p, n, i)
    \/ \E n \in Nodes : MenuRemove(n)
    \/ \E p \in SubmenuNodes : \E n \in Nodes : SubmenuRemove(p, n)
    \/ \E n \in Nodes : \E s \in Texts : SetText(n, s)
    \/ \E n \in Nodes : \E b \in BOOLEAN : SetEnabled(n, b)
    \/ \E n \in Nodes : \E b \in BOOLEAN : SetChecked(n, b)
    \/ \E w \in Windows : \E c \in Containers : InitForGtkWindow(w, c)
    \/ \E w \in Windows : \E a \in Apps \cup {NoApp} : SetApplication(w, a)

Spec == Init /\ [][Next]_vars

\* The application builds a tree of items that send events, attaches it,
\* shows it as context menus, and the user activates items.
NextEv ==
    \/ \E c \in CtorsEv : NewNode(c)
    \/ \E n \in Nodes : MenuAppend(n)
    \/ \E p \in SubmenuNodes : \E n \in Nodes : SubmenuAppend(p, n)
    \/ \E w \in Windows : \E c \in Containers : InitForGtkWindow(w, c)
    \/ \E w \in Windows : MenuShowContextMenu(w)
    \/ \E p \in SubmenuNodes : \E w \in Windows : SubmenuShowContextMenu(p, w)
    \/ Activate
    \/ Dismiss

SpecEv == Init /\ [][NextEv]_vars

\* ------------------------------------------------- claims: the mutators
\* C1: a set_text(s) or set_enabled(b) call on an item returns, and after it
\* the node's text / enabled flag is the value given and every backend
\* item of the node carries the text.
C1_SetterTakesEffect ==
    [][/\ \A n \in Nodes : \A s \in Texts : SetText(n, s) =>
              /\ panic' = NoPanic
              /\ nodes'[n].text = s
              /\ \A k \in DOMAIN nodes'[n].instances :
                     \A i \in 1..Len(nodes'[n].instances[k]) :
                         nodes'[n].instances[k][i].variant # "ContextMenu" =>
                             nodes'[n].instances[k][i].item.label = to_gtk_mnemonic(s)
       /\ \A n \in Nodes : \A b \in BOOLEAN : SetEnabled(n, b) =>
              /\ panic' = NoPanic
              /\ nodes'[n].enabled = b]_vars

\* The backend instances of node n, whatever the attachment.
InstancesOf(ns, n) ==
    UNION {{ns[n].instances[k][i] : i \in 1..Len(ns[n].instances[k])} :
               k \in DOMAIN ns[n].instances}

\* Node n is a check item inside a submenu of the root Menu, and the Menu
\* is attached to both windows.
CheckItemUnderTwoWindows(n) ==
    /\ nodes[n].ctor = "CheckMenuItem"
    /\ \E p \in SubmenuNodes :
           /\ nodes[p].children = <<n>>
           /\ \E i \in 1..Len(menu.children) : menu.children[i] = p
    /\ \A w \in Windows : WindowId(w) \in DOMAIN menu.instances

\* C2: for a check item in a submenu attached to two windows,
\* set_checked(true) returns, and after it is_checked() is true and the
\* action of each of the item's two backend instances has the state true.
C2_SetCheckedPropagates ==
    [][\A n \in Nodes : (CheckItemUnderTwoWindows(n) /\ SetChecked(n, TRUE)) =>
           /\ panic' = NoPanic
           /\ nodes'[n].checked
           /\ Cardinality(InstancesOf(nodes', n)) = 2
           /\ \A c \in InstancesOf(nodes', n) : actions'[c.action].state = <<TRUE>>]_vars

\* ------------------------------------------------ claims: re-attachment
\* What init_for_gtk_window reads and writes of the library's state.
LibraryState == <<counter, menu, nodes, gmenus, actions, appData, winGroup, events, panic>>

\* C5 as the spec states it: init_for_gtk_window for a window whose id
\* already has a backend root returns AlreadyInitialized and changes nothing.
C5_ReattachIsAlreadyInitialized ==
    [][\A w \in Windows : \A c \in Containers :
           (WindowId(w) \in DOMAIN menu.instances /\ InitForGtkWindow(w, c)) =>
               /\ ret' = "AlreadyInitialized"
               /\ UNCHANGED LibraryState]_vars

\* C5 amended: init_for_gtk_window for a window whose id already has a
\* backend root changes nothing, and returns AlreadyInitialized when the
\* window has an application, GtkWindowWithoutApplication when it has none.
C5_ReattachChangesNothing ==
    [][\A w \in Windows : \A c \in Containers :
           (WindowId(w) \in DOMAIN menu.instances /\ InitForGtkWindow(w, c)) =>
               /\ ret' = IF winApp[w] = NoApp THEN "GtkWindowWithoutApplication"
                         ELSE "AlreadyInitialized"
               /\ UNCHANGED LibraryState]_vars

\* A second init_for_gtk_window of an attached window whose menu bar has an
\* item has returned AlreadyInitialized.
C5_Witness ==
    /\ ret = "AlreadyInitialized"
    /\ \E w \in Windows :
           /\ WindowId(w) \in DOMAIN menu.instances
           /\ gmenus[menu.instances[WindowId(w)].menu] # <<>>

\* ----------------------------------------- claims: growing the tree
\* The nodes of the items of the gio::Menu named m, in order.
ItemNodes(gm, m) == [i \in 1..Len(gm[m]) |-> gm[m][i].node]

\* The names of the gio::Menus that show the children of node p.
MenusOf(ns, p) == {c.menu : c \in {x \in InstancesOf(ns, p) : x.menu # NoRef}}

\* The names of the gio::Menus that show the children of the root Menu.
BarMenus == {menu.instances[k].menu : k \in DOMAIN menu.instances}

\* C6: appending an item to a Menu or Submenu that has backend containers
\* returns and puts exactly one more backend item into each of them.
C6_OneBackendChildPerContainer ==
    [][/\ \A n \in Nodes : (BarMenus # {} /\ MenuAppend(n)) =>
              /\ panic' = NoPanic
              /\ \A m \in BarMenus : Len(gmenus'[m]) = Len(gmenus[m]) + 1
       /\ \A p \in SubmenuNodes : \A n \in Nodes :
              (MenusOf(nodes, p) # {} /\ SubmenuAppend(p, n)) =>
                  /\ panic' = NoPanic
                  /\ \A m \in MenusOf(nodes, p) : Len(gmenus'[m]) = Len(gmenus[m]) + 1]_vars

\* Every backend container shows the children of its Menu or Submenu in
\* the order of items().
OrderOk ==
    /\ \A m \in BarMenus : ItemNodes(gmenus, m) = menu.children
    /\ \A p \in Nodes : \A m \in MenusOf(nodes, p) : ItemNodes(gmenus, m) = nodes[p].children

\* An append, an insert with index <= len, or an attachment.
GrowStep ==
    \/ \E n \in Nodes : MenuAppend(n)
    \/ \E n \in Nodes : \E i \in 0..Len(menu.children) : MenuInsert(n, i)
    \/ \E p \in SubmenuNodes : \E n \in Nodes : SubmenuAppend(p, n)
    \/ \E p \in SubmenuNodes : \E n \in Nodes :
           \E i \in 0..Len(nodes[p].children) : SubmenuInsert(p, n, i)
    \/ \E w \in Windows : \E c \in Containers : InitForGtkWindow(w, c)

\* C7: every append, insert(i <= len) and attachment returns and leaves
\* every backend container in the order of items().
C7_BackendOrderIsItemsOrder == [][GrowStep => (panic' = NoPanic /\ OrderOk')]_vars

\* C8: init_for_gtk_window for a window that has an application and no
\* attachment returns Ok whatever the kinds of the nodes, and the new menu
\* bar then has one backend item per child of the Menu, in order.
C8_AttachMaterializesEveryKind ==
    [][\A w \in Windows : \A c \in Containers :
           (/\ winApp[w] # NoApp
            /\ EntryVacant(menu.instances, WindowId(w))
            /\ InitForGtkWindow(w, c)) =>
               /\ ret' = "Ok"
               /\ Ref(0, WindowId(w), 1) \in DOMAIN gmenus'
               /\ ItemNodes(gmenus', Ref(0, WindowId(w), 1)) = menu.children]_vars

\* Node n is among the children.
IsChild(children, n) == \E i \in 1..Len(children) : children[i] = n

\* C9: remove(item) on a Menu or Submenu returns and the item is no longer
\* among the children.
C9_RemoveRemoves ==
    [][/\ \A n \in Nodes : (IsChild(menu.children, n) /\ MenuRemove(n)) =>
              (panic' = NoPanic /\ ~IsChild(menu'.children, n))
       /\ \A p \in SubmenuNodes : \A n \in Nodes :
              (IsChild(nodes[p].children, n) /\ SubmenuRemove(p, n)) =>
                  (panic' = NoPanic /\ ~IsChild(nodes'[p].children, n))]_vars

\* C10: insert(item, index) with index > len returns the error InvalidIndex
\* and leaves the children and the backend containers as they were.
C10_InsertPastEndIsInvalidIndex ==
    [][/\ \A n \in Nodes : \A i \in 0..(MaxEdges + 1) :
              (i > Len(menu.children) /\ MenuInsert(n, i)) =>
                  (ret' = "InvalidIndex" /\ UNCHANGED <<menu, nodes, gmenus, panic>>)
       /\ \A p \in SubmenuNodes : \A n \in Nodes : \A i \in 0..(MaxEdges + 1) :
              (i > Len(nodes[p].children) /\ SubmenuInsert(p, n, i)) =>
                  (ret' = "InvalidIndex" /\ UNCHANGED <<menu, nodes, gmenus, panic>>)]_vars

\* ------------------------------------------------- claims: the events
\* C3: a native activation of a backend item of a plain, icon or check
\* item, in any menu bar or popup that shows it, sends an event whose id is
\* the id of the node the backend item was made for.
C3_ActivationSendsNodeId ==
    [][\A c \in Shown : \A it \in ItemsUnder(gmenus, c.menu) :
           ActivateItem(c, it) =>
               /\ events' # events
               /\ events'[Len(events')].id = nodes[it.node].id]_vars

\* Events of a check item and of a plain item have been sent, and the check
\* item has backend instances under two attachments.
C3_Witness ==
    /\ \E i \in 1..Len(events) : events[i].id = "quit"
    /\ \E n \in Nodes :
           /\ nodes[n].type_ = Check
           /\ Cardinality(DOMAIN nodes[n].instances) >= 2
           /\ \E i \in 1..Len(events) : events[i].id = nodes[n].id

\* C4: every native activation puts exactly one event at the end of the
\* channel and leaves the events before it as they were, and nothing else
\* puts an event on the channel: n activations send n events, in order.
C4_OneEventPerActivation ==
    [][/\ Activate => (/\ Len(events') = Len(events) + 1
                       /\ SubSeq(events', 1, Len(events)) = events)
       /\ events' # events => Activate]_vars

\* A leaf with backend instances under two attachments has been activated
\* twice, and the channel holds its two events.
C4_Witness ==
    /\ Len(events) = 2
    /\ events[1] = events[2]
    /\ \E n \in Nodes :
           /\ nodes[n].id = events[1].id
           /\ nodes[n].children = <<>>
           /\ Cardinality(DOMAIN nodes[n].instances) >= 2

\* ------------------------------------------ the mnemonic conversions
\* The characters of the labels: the two mnemonic markers, the characters
\* of the placeholder "[~~]" and a letter.
Alphabet == {"&", "_", "[", "~", "]", "a"}

\* All labels of at most MaxLen characters.
Labels == UNION {[1..n -> Alphabet] : n \in 0..MaxLen}

\* A label is given to the library.
InitMn ==
    /\ mn \in {[input |-> s, out |-> s, stage |-> "muda"] : s \in Labels}
    /\ handles = NoHandles
    /\ rd = NoReader
    /\ winOpen = [w \in HostWindows |-> TRUE]
    /\ counter = 3
    /\ menu = [id |-> IdFromCounter(1), instances |-> EmptyMap, ctx_menu_id |-> 2,
               children |-> <<>>]
    /\ nodes = <<>>
    /\ gmenus = EmptyMap
    /\ actions = EmptyMap
    /\ appData = [a \in Apps |-> [set |-> FALSE, acts |-> EmptyMap, groups |-> 0]]
    /\ winApp = [w \in HostWindows |-> "app1"]
    /\ winGroup = [w \in HostWindows |-> NoApp]
    /\ events = <<>>
    /\ ret = "Ok"
    /\ panic = NoPanic

\* The label is converted for a gio::MenuItem.
ToGtk ==
    /\ mn.stage = "muda"
    /\ mn' = [mn EXCEPT !.out = to_gtk_mnemonic(@), !.stage = "gtk"]
    /\ UNCHANGED <<counter, menu, nodes, gmenus, actions, appData, winApp, winGroup,
                   events, ret, panic, handles, rd, winOpen>>

\* The GTK label is converted back.
FromGtk ==
    /\ mn.stage = "gtk"
    /\ mn' = [mn EXCEPT !.out = from_gtk_mnemonic(@), !.stage = "back"]
    /\ UNCHANGED <<counter, menu, nodes, gmenus, actions, appData, winApp, winGroup,
                   events, ret, panic, handles, rd, winOpen>>

\* The label is the text of a MenuItem whose projection record is computed.
Project ==
    /\ mn.stage = "muda"
    /\ mn' = [mn EXCEPT !.out = CompatFrom(MenuChild("quit", mn.input, TRUE, FALSE, FALSE,
                                                     MenuItem, 0, "MenuItem")).label,
                        !.stage = "label"]
    /\ UNCHANGED <<counter, menu, nodes, gmenus, actions, appData, winApp, winGroup,
                   events, ret, panic, handles, rd, winOpen>>

NextMn == ToGtk \/ FromGtk \/ Project

SpecMn == InitMn /\ [][NextMn]_vars

\* C11: a label converted to a GTK mnemonic and back is the label given:
\* from_gtk_mnemonic(to_gtk_mnemonic(s)) = s.
C11_MnemonicRoundTrip == mn.stage = "back" => mn.out = mn.input

\* ------------------------------------------------------ claims: ids
\* Ids the caller gives to the with_id constructors: a name, and the text
\* of a number the counter also produces.
IdsGiven == {"quit", IdFromCounter(3)}

\* Every constructor, without an id and with each of the ids.
CtorsId ==
    {Ctor(k, <<>>, T1, TRUE, FALSE, FALSE) :
        k \in {"Submenu", "MenuItem", "CheckMenuItem", "IconMenuItem",
               "IconMenuItem::with_native_icon", "PredefinedMenuItem"}}
    \cup {Ctor(k, <<i>>, T1, TRUE, FALSE, FALSE) :
        k \in {"Submenu", "MenuItem", "CheckMenuItem", "IconMenuItem",
               "IconMenuItem::with_native_icon"},
        i \in IdsGiven}

\* The application constructs items of every kind, with and without ids,
\* appends them to the Menu and attaches the Menu to a window in between.
NextId ==
    \/ \E c \in CtorsId : NewNode(c)
    \/ \E n \in Nodes : MenuAppend(n)
    \/ \E c \in Containers : InitForGtkWindow("w1", c)

SpecId == Init /\ [][NextId]_vars

\* C12: two nodes constructed without an id, and the Menu, have distinct
\* ids; a node constructed with an id has that id, on the handle and on
\* the inner node.
C12_ConstructorIds ==
    \A a \in Nodes :
        IF nodes[a].given = <<>>
        THEN /\ nodes[a].hid = nodes[a].id
             /\ nodes[a].id # menu.id
             /\ \A b \in Nodes \ {a} : nodes[b].given = <<>> => nodes[b].id # nodes[a].id
        ELSE /\ nodes[a].id = nodes[a].given[1]
             /\ nodes[a].hid = nodes[a].given[1]

\* Two nodes were constructed without an id, the first a submenu that was
\* materialized (which takes a number from the counter) before the second
\* was constructed.
C12_Witness ==
    /\ Len(nodes) = 2
    /\ nodes[1].given = <<>> /\ nodes[2].given = <<>>
    /\ nodes[1].type_ = Submenu
    /\ nodes[2].id = IdFromCounter(6)

\* The children of the root Menu (p = 0) or of node p.
ChildrenOf(p) == IF p = 0 THEN menu.children ELSE nodes[p].children

\* S and the children of the nodes of S.
WithChildren(S) == S \cup UNION {{nodes[p].children[i] : i \in 1..Len(nodes[p].children)} : p \in S}

RECURSIVE Closure(_, _)
Closure(S, k) == IF k = 0 THEN S ELSE Closure(WithChildren(S), k - 1)

\* The nodes of the tree of the root Menu.
InTree == Closure({menu.children[i] : i \in 1..Len(menu.children)}, MaxNodes)

\* C13: no two distinct nodes of the tree of the Menu have equal ids.
C13_TreeIdsDistinct == \A a, b \in InTree : a # b => nodes[a].id # nodes[b].id

\* The places of node n: the parents (0: the Menu) and indices where n is a child.
Places(n) ==
    {x \in (0..Len(nodes)) \X (1..MaxEdges) :
        x[2] <= Len(ChildrenOf(x[1])) /\ ChildrenOf(x[1])[x[2]] = n}

\* C14: every node is a child of at most one parent, at most once.
C14_TreeNotDag == \A n \in Nodes : Cardinality(Places(n)) <= 1

\* ------------------------------------------------ claims: context menus
\* The application builds a tree of every kind of item, shows the Menu and
\* its submenus as context menus and attaches the Menu to the first window,
\* while the host program changes the application of the second.
NextCtx ==
    \/ \E c \in Ctors : NewNode(c)
    \/ \E n \in Nodes : MenuAppend(n)
    \/ \E n \in Nodes : \E i \in 0..(Len(menu.children) + 1) : MenuInsert(n, i)
    \/ \E p \in SubmenuNodes : \E n \in Nodes : SubmenuAppend(p, n)
    \/ \E p \in SubmenuNodes : \E n \in Nodes :
           \E i \in 0..(Len(nodes[p].children) + 1) : SubmenuInsert(p, n, i)
    \/ \E c \in Containers : InitForGtkWindow("w1", c)
    \/ \E w \in Windows : MenuShowContextMenu(w)
    \/ \E p \in SubmenuNodes : \E w \in Windows : SubmenuShowContextMenu(p, w)
    \/ \E a \in Apps \cup {NoApp} : SetApplication("w2", a)

SpecCtx == Init /\ [][NextCtx]_vars

\* The popup containers of the root Menu and of node p.
MenuPopups == {k \in DOMAIN menu.instances : menu.instances[k].variant = "ContextMenu"}
NodePopups(p) == {c \in InstancesOf(nodes, p) : c.variant = "ContextMenu"}

\* The Menu has one popup container, under its ctx_menu_id, with one
\* backend child per child of the Menu, in order.
MenuPopupOk ==
    /\ MenuPopups = {menu.ctx_menu_id}
    /\ ItemNodes(gmenus, menu.instances[menu.ctx_menu_id].menu) = menu.children

\* The same for the submenu p.
NodePopupOk(p) ==
    /\ nodes[p].ctx_menu_id \in DOMAIN nodes[p].instances
    /\ Cardinality(NodePopups(p)) = 1
    /\ NodePopups(p) = {nodes[p].instances[nodes[p].ctx_menu_id][1]}
    /\ ItemNodes(gmenus, PopupOf(p).menu) = nodes[p].children

\* A show_context_menu_for_gtk_window call for a window that has an
\* application, an append or an insert with index <= len.
CtxStep ==
    \/ \E w \in Windows : winApp[w] # NoApp /\ MenuShowContextMenu(w)
    \/ \E p \in SubmenuNodes : \E w \in Windows :
           winApp[w] # NoApp /\ SubmenuShowContextMenu(p, w)
    \/ \E n \in Nodes : MenuAppend(n)
    \/ \E n \in Nodes : \E i \in 0..Len(menu.children) : MenuInsert(n, i)
    \/ \E p \in SubmenuNodes : \E n \in Nodes : SubmenuAppend(p, n)
    \/ \E p \in SubmenuNodes : \E n \in Nodes :
           \E i \in 0..Len(nodes[p].children) : SubmenuInsert(p, n, i)

\* C15: every show_context_menu_for_gtk_window call for a window with an
\* application, and every append and insert between the calls, returns, and
\* after it each Menu or Submenu that was shown has exactly one popup
\* container, under its ctx_menu_id, holding one backend child per child in
\* the order of the children.
C15_OnePopupInLogicalOrder ==
    [][CtxStep =>
          /\ panic' = NoPanic
          /\ (MenuPopups # {} \/ \E w \in Windows : winApp[w] # NoApp /\ MenuShowContextMenu(w))
                 => MenuPopupOk'
          /\ \A p \in SubmenuNodes :
                 (NodePopups(p) # {} \/ \E w \in Windows :
                                            winApp[w] # NoApp /\ SubmenuShowContextMenu(p, w))
                     => NodePopupOk(p)']_vars

\* C16: show_context_menu_for_gtk_window of a Menu or Submenu returns false
\* exactly when the window has no application, and then it leaves the
\* instances of the Menu and of every node, the backend menus, the actions
\* and the windows' action groups as they were.
C16_FalseIffNoApplication ==
    [][/\ \A w \in Windows : MenuShowContextMenu(w) =>
              /\ (ret' = "false") <=> (winApp[w] = NoApp)
              /\ ret' = "false" => UNCHANGED <<menu, nodes, gmenus, actions, appData, winGroup>>
       /\ \A p \in SubmenuNodes : \A w \in Windows : SubmenuShowContextMenu(p, w) =>
              /\ (ret' = "false") <=> (winApp[w] = NoApp)
              /\ ret' = "false" => UNCHANGED <<menu, nodes, gmenus, actions, appData, winGroup>>]_vars

\* A show has returned false for a Menu with children and no popup container.
C16_Witness ==
    /\ ret = "false"
    /\ menu.children # <<>>
    /\ MenuPopups = {}
    /\ \E w \in Windows : winApp[w] = NoApp

\* C17: init_for_gtk_window for a window without application returns
\* GtkWindowWithoutApplication and leaves the Menu's instances and every
\* node's instances as they were; an attachment of a window that has an
\* application and no entry is not rejected as AlreadyInitialized.
C17_NoApplicationLeavesNoTrace ==
    [][\A w \in Windows : \A c \in Containers : InitForGtkWindow(w, c) =>
           /\ winApp[w] = NoApp =>
                  /\ ret' = "GtkWindowWithoutApplication"
                  /\ UNCHANGED <<menu, nodes, gmenus, actions, appData, winGroup>>
           /\ (winApp[w] # NoApp /\ WindowId(w) \notin DOMAIN menu.instances) =>
                  ret' # "AlreadyInitialized"]_vars

\* An attachment of a window without application has failed, and no window
\* is attached.
C17_Witness ==
    /\ ret = "GtkWindowWithoutApplication"
    /\ menu.children # <<>>
    /\ menu.instances = EmptyMap

\* C18: an application gets at most one action group; once it has one,
\* every attachment, show and materialization leaves it the one it has.
C18_OneDispatchTablePerApplication ==
    [][\A a \in Apps :
           /\ appData'[a].groups <= 1
           /\ appData[a].set => (appData'[a].set /\ appData'[a].groups = appData[a].groups)]_vars

\* Both windows have the action group of the application, one by an
\* attachment and one by a context-menu show, and a check item has added
\* its action to it.
C18_Witness ==
    /\ appData["app1"].groups = 1
    /\ winGroup["w1"] = "app1" /\ winGroup["w2"] = "app1"
    /\ WindowId("w1") \in DOMAIN menu.instances
    /\ WindowId("w2") \notin DOMAIN menu.instances
    /\ MenuPopups # {}
    /\ \E n \in Nodes : nodes[n].type_ = Check /\ nodes[n].id \in DOMAIN appData["app1"].acts

\* ------------------------------------------- claims: the projection
\* The application builds and attaches a tree of items and calls their
\* setters.
NextSet ==
    \/ \E c \in CtorsEv : NewNode(c)
    \/ \E n \in Nodes : MenuAppend(n)
    \/ \E p \in SubmenuNodes : \E n \in Nodes : SubmenuAppend(p, n)
    \/ \E w \in Windows : \E c \in Containers : InitForGtkWindow(w, c)
    \/ \E n \in Nodes : \E s \in Texts : SetText(n, s)
    \/ \E n \in Nodes : \E b \in BOOLEAN : SetEnabled(n, b)
    \/ \E n \in Nodes : \E b \in BOOLEAN : SetChecked(n, b)
    \/ \E n \in Nodes : \E i \in BOOLEAN : SetIcon(n, i)

SpecSet == Init /\ [][NextSet]_vars

\* A setter of the handle of node n is called.
SetterCall(n) ==
    \/ \E s \in Texts : SetText(n, s)
    \/ \E b \in BOOLEAN : SetEnabled(n, b)
    \/ \E b \in BOOLEAN : SetChecked(n, b)
    \/ \E i \in BOOLEAN : SetIcon(n, i)

\* C19: every set_text, set_enabled, set_checked and set_icon call on an
\* item handle returns, and after it the projection record published for
\* the node is the projection of the node's state.
C19_ProjectionIsCurrent ==
    [][\A n \in Nodes : SetterCall(n) =>
           /\ panic' = NoPanic
           /\ nodes'[n].compat = compat_menu_item(nodes'[n])]_vars

\* The gio items built for node n that are in a backend menu.
ItemsOfNode(gm, n) ==
    UNION {{gm[m][k] : k \in {j \in 1..Len(gm[m]) : gm[m][j].node = n}} : m \in DOMAIN gm}

\* C20: after IconMenuItem::set_icon(i), icon() is i and every backend
\* instance of the item carries i, for i = None and i = Some(icon).
C20_SetIconTakesEffect ==
    [][\A n \in Nodes : \A i \in BOOLEAN : SetIcon(n, i) =>
           /\ nodes'[n].icon = i
           /\ \A c \in InstancesOf(nodes', n) : c.item.icon = i
           /\ \A it \in ItemsOfNode(gmenus', n) : it.icon = i]_vars

\* ------------------------------------------------- claims: the labels
\* A text read left to right: "&&" is one literal "&", a single "&" marks
\* the mnemonic and is not shown.
RECURSIVE WithoutMnemonic(_)
WithoutMnemonic(s) ==
    IF s = <<>> THEN <<>>
    ELSE IF IsPrefix(<<"&", "&">>, s) THEN <<"&">> \o WithoutMnemonic(SubSeq(s, 3, Len(s)))
    ELSE IF Head(s) = "&" THEN WithoutMnemonic(Tail(s))
    ELSE <<Head(s)>> \o WithoutMnemonic(Tail(s))

\* C21: the label of the projection record of a node is the node's text
\* without the mnemonic marker "&" and with each "&&" as one literal "&".
C21_ProjectionLabel == mn.stage = "label" => mn.out = WithoutMnemonic(mn.input)

\* A text read left to right: "_" becomes "__", "&&" becomes "&", a single
\* "&" becomes "_", every other character stays.
RECURSIVE ScanToGtk(_)
ScanToGtk(s) ==
    IF s = <<>> THEN <<>>
    ELSE IF IsPrefix(<<"&", "&">>, s) THEN <<"&">> \o ScanToGtk(SubSeq(s, 3, Len(s)))
    ELSE IF Head(s) = "&" THEN <<"_">> \o ScanToGtk(Tail(s))
    ELSE IF Head(s) = "_" THEN <<"_", "_">> \o ScanToGtk(Tail(s))
    ELSE <<Head(s)>> \o ScanToGtk(Tail(s))

\* C27: to_gtk_mnemonic(s) is s read left to right with "_" doubled, "&&"
\* as "&" and a single "&" as "_", every other character unchanged.
C27_ToGtkIsTheScan == mn.stage = "gtk" => mn.out = ScanToGtk(mn.input)

\* ------------------------------------------- claims: predefined items
\* The predefined constructor calls: a kind, with or without a text.
CtorsPredefined ==
    {CtorPredefined(k, t) : k \in {"Separator", "Copy", "Quit", "CloseWindow"},
                            t \in {<<>>, <<T1>>}}

\* The application builds predefined items and appends them to the Menu.
NextPre ==
    \/ \E c \in CtorsPredefined : NewNode(c)
    \/ \E n \in Nodes : MenuAppend(n)

SpecPre == Init /\ [][NextPre]_vars

\* C23: a predefined item built without a text has the default text and
\* the default accelerator of its kind; built with a text it has that text.
C23_PredefinedDefaults ==
    [][\A c \in CtorsPredefined : NewNode(c) =>
           LET node == nodes'[Len(nodes')]
           IN IF c.text = <<>>
              THEN /\ node.text = PredefinedText(c.kind)
                   /\ node.accelerator = PredefinedAccelerator(c.kind)
              ELSE node.text = c.text[1]]_vars

\* -------------------------------------------------- the item handles
\* A handle of the application: the node it shares, the Rc<MenuId> cell of
\* its `id` field and whether the application still holds it.  An Rc cell:
\* the MenuId it holds and its strong count.
HandleOf(n, rc) == [node |-> n, rc |-> rc, live |-> TRUE]

\* MenuId::default()
DefaultMenuId == ""

\* An into_id that takes the id whether or not the Rc is shared.
into_id_AlwaysTake(rcs, k) ==
    [rcs |-> [rcs EXCEPT ![k].value = DefaultMenuId], id |-> rcs[k].value]

\* normal.rs:148-156 (check.rs:190-198, icon.rs:275-282)  into_id: the id
\* returned and the Rc cells after Rc::get_mut / mem::take or the clone.
into_id(rcs, k) ==
    IF rcs[k].strong = 1
    THEN [rcs |-> [rcs EXCEPT ![k].value = DefaultMenuId], id |-> rcs[k].value]
    ELSE [rcs |-> rcs, id |-> rcs[k].value]

\* The handles the application holds.
Live == {h \in 1..Len(handles.hs) : handles.hs[h].live}

\* id() of handle h (normal.rs:102-105): &self.id
IdOf(hd, h) == hd.rcs[hd.hs[h].rc].value

\* A constructor of items/*.rs returns a handle with a new Rc<MenuId>.
HandleNew(c) ==
    /\ panic = NoPanic
    /\ Len(nodes) < MaxNodes
    /\ Len(handles.hs) < MaxHandles
    /\ LET st == Construct(Cur, c)
       IN /\ Commit(st)
          /\ handles' = [hs |-> Append(handles.hs, HandleOf(Len(st.nodes), Len(handles.rcs) + 1)),
                         rcs |-> Append(handles.rcs,
                                        [value |-> st.nodes[Len(st.nodes)].hid, strong |-> 1])]
    /\ ret' = "Ok"
    /\ UNCHANGED <<winApp, events, mn, rd, winOpen>>

\* #[derive(Clone)] on the handle (normal.rs:17-23): Rc::clone of id and inner.
HandleClone(h) ==
    /\ panic = NoPanic
    /\ Len(handles.hs) < MaxHandles
    /\ handles' = [hs |-> Append(handles.hs, HandleOf(handles.hs[h].node, handles.hs[h].rc)),
                   rcs |-> [handles.rcs EXCEPT ![handles.hs[h].rc].strong = @ + 1]]
    /\ UNCHANGED <<counter, menu, nodes, gmenus, actions, appData, winApp, winGroup, events,
                   ret, panic, mn, rd, winOpen>>

\* The application drops handle h.
HandleDrop(h) ==
    /\ panic = NoPanic
    /\ handles' = [hs |-> [handles.hs EXCEPT ![h].live = FALSE],
                   rcs |-> [handles.rcs EXCEPT ![handles.hs[h].rc].strong = @ - 1]]
    /\ UNCHANGED <<counter, menu, nodes, gmenus, actions, appData, winApp, winGroup, events,
                   ret, panic, mn, rd, winOpen>>

\* into_id(self) on handle h: the id is returned and the handle is gone.
IntoId(h) ==
    /\ panic = NoPanic
    /\ LET r == into_id(handles.rcs, handles.hs[h].rc)
       IN /\ ret' = r.id
          /\ handles' = [hs |-> [handles.hs EXCEPT ![h].live = FALSE],
                         rcs |-> [r.rcs EXCEPT ![handles.hs[h].rc].strong = @ - 1]]
    /\ UNCHANGED <<counter, menu, nodes, gmenus, actions, appData, winApp, winGroup, events,
                   panic, mn, rd, winOpen>>

\* The constructors whose handles are followed.
CtorsHandle ==
    { Ctor("MenuItem", <<"quit">>, T1, TRUE, FALSE, FALSE),
      Ctor("CheckMenuItem", <<>>, T1, TRUE, FALSE, FALSE) }

\* The application builds items, clones and drops their handles and turns
\* handles into ids.
NextHandle ==
    \/ \E c \in CtorsHandle : HandleNew(c)
    \/ \E h \in Live : HandleClone(h)
    \/ \E h \in Live : HandleDrop(h)
    \/ \E h \in Live : IntoId(h)

SpecHandle == Init /\ [][NextHandle]_vars

\* C24: into_id on a handle returns the id that id() returned on it, alone
\* or with clones alive, and leaves id() of every other live handle as it was.
C24_IntoIdKeepsIds ==
    [][\A h \in Live : IntoId(h) =>
           /\ ret' = IdOf(handles, h)
           /\ ret' = nodes[handles.hs[h].node].id
           /\ \A g \in Live \ {h} : IdOf(handles', g) = IdOf(handles, g)]_vars

\* into_id has been called on a handle that had a live clone and on the
\* last handle of a node.
C24_Witness ==
    /\ Len(handles.hs) = 3
    /\ Live = {}
    /\ \E k \in 1..Len(handles.rcs) : handles.rcs[k].value = DefaultMenuId
    /\ ret = "quit"

\* ------------------------------------- claims: readers of the projection
\* Submenu::append(item): the child is added to the cell and the projection
\* record of the submenu is recomputed and published.
Submenu_append(st, p, n, ord) == Publish(MenuChild_add_menu_item(st, p, n, AppendOp, ord), p)

\* The state after  a = Submenu::new(..); b = Submenu::new(..);
\* x = MenuItem::with_id("quit", ..); a.append(&b).
Built ==
    LET st0 == [counter |-> 3,
                menu |-> [id |-> IdFromCounter(1), instances |-> EmptyMap, ctx_menu_id |-> 2,
                          children |-> <<>>],
                nodes |-> <<>>, gmenus |-> EmptyMap, actions |-> EmptyMap,
                appData |-> [a \in Apps |-> [set |-> FALSE, acts |-> EmptyMap, groups |-> 0]],
                winGroup |-> [w \in HostWindows |-> NoApp], panic |-> NoPanic]
        sub == Ctor("Submenu", <<>>, T1, TRUE, FALSE, FALSE)
        item == Ctor("MenuItem", <<"quit">>, T1, TRUE, FALSE, FALSE)
    IN Submenu_append(Construct(Construct(Construct(st0, sub), sub), item), 1, 2, <<>>)

\* The projection of the logical tree under node n.
RECURSIVE TreeProjection(_, _)
TreeProjection(ns, n) ==
    IF ns[n].ctor = "Submenu"
    THEN [SubmenuProjection(ns[n]) EXCEPT
             !.submenu = [i \in 1..Len(ns[n].children) |-> TreeProjection(ns, ns[n].children[i])]]
    ELSE compat_menu_item(ns[n])

\* The tree a reader has seen: the records it loaded from the cells of the
\* submenus, and the records of the items (no item record ever changes).
RECURSIVE Expand(_, _, _)
Expand(rec, seen, ns) ==
    IF rec.kind # "SubMenu" THEN rec
    ELSE [rec EXCEPT !.submenu =
             [i \in 1..Len(rec.submenu) |->
                 IF rec.submenu[i] \in DOMAIN seen
                 THEN Expand(seen[rec.submenu[i]], seen, ns)
                 ELSE ns[rec.submenu[i]].compat]]

\* The cells of submenus that the loaded records name and the reader has
\* not loaded yet.
ToLoad ==
    {c \in Nodes : /\ nodes[c].ctor = "Submenu"
                   /\ c \notin DOMAIN rd.seen
                   /\ \E k \in DOMAIN rd.seen : \E i \in 1..Len(rd.seen[k].submenu) :
                          rd.seen[k].submenu[i] = c}

InitRd ==
    /\ mn = NoConversion
    /\ handles = NoHandles
    /\ winOpen = [w \in HostWindows |-> TRUE]
    /\ rd = [pc |-> "idle", seen |-> <<>>, hist |-> {TreeProjection(Built.nodes, 1)}]
    /\ counter = Built.counter
    /\ menu = Built.menu
    /\ nodes = Built.nodes
    /\ gmenus = Built.gmenus
    /\ actions = Built.actions
    /\ appData = Built.appData
    /\ winApp = [w \in HostWindows |-> "app1"]
    /\ winGroup = Built.winGroup
    /\ events = <<>>
    /\ ret = "Ok"
    /\ panic = NoPanic

\* The UI thread appends the item to the submenu p.
UiAppend(p) ==
    /\ panic = NoPanic
    /\ Edges < 1 + MaxAppends
    /\ LET st == Submenu_append(Cur, p, 3, <<>>)
       IN /\ Commit(st)
          /\ rd' = [rd EXCEPT !.hist = @ \cup {TreeProjection(st.nodes, 1)}]
    /\ ret' = "Ok"
    /\ UNCHANGED <<winApp, events, mn, handles, winOpen>>

\* The UI thread calls set_text on a node.
UiSetText(n, s) ==
    /\ panic = NoPanic
    /\ Commit(Publish(MenuChild_set_text(Cur, n, s), n))
    /\ ret' = "panic"
    /\ UNCHANGED <<winApp, events, mn, handles, rd, winOpen>>

\* The reader thread loads the cell of the submenu it walks: ArcSwap::load.
LoadRoot ==
    /\ rd.pc = "idle"
    /\ rd' = [rd EXCEPT !.pc = "walking", !.seen = (1 :> nodes[1].compat)]
    /\ UNCHANGED <<counter, menu, nodes, gmenus, actions, appData, winApp, winGroup, events,
                   ret, panic, mn, handles, winOpen>>

\* The reader thread loads the cell of a child submenu named by a record it
\* has loaded; with none left the walk is done.
LoadChild ==
    /\ rd.pc = "walking"
    /\ IF ToLoad = {} THEN rd' = [rd EXCEPT !.pc = "done"]
       ELSE \E c \in ToLoad : rd' = [rd EXCEPT !.seen = Put(@, c, nodes[c].compat)]
    /\ UNCHANGED <<counter, menu, nodes, gmenus, actions, appData, winApp, winGroup, events,
                   ret, panic, mn, handles, winOpen>>

\* The UI thread mutates the nodes of a submenu while a reader thread walks
\* its published projection.
NextRd ==
    \/ \E p \in {1, 2} : UiAppend(p)
    \/ \E n \in Nodes : \E s \in Texts : UiSetText(n, s)
    \/ LoadRoot
    \/ LoadChild

SpecRd == InitRd /\ [][NextRd]_vars

\* C22: the tree a reader has walked is the projection of the logical tree
\* at one moment of the past.
C22_ReaderSeesOneMoment ==
    rd.pc = "done" => Expand(rd.seen[1], rd.seen, nodes) \in rd.hist

\* ------------------------------------------------ claims: window closing
\* The window at address w is closed and destroyed: it leaves its
\* application.  The library has connected no handler to the window, and
\* Menu::remove_for_gtk_window (mod.rs:202-207) is todo!(): nothing of the
\* library runs.
CloseWindow(w) ==
    /\ panic = NoPanic
    /\ winOpen[w]
    /\ winOpen' = [winOpen EXCEPT ![w] = FALSE]
    /\ winApp' = [winApp EXCEPT ![w] = NoApp]
    /\ UNCHANGED <<counter, menu, nodes, gmenus, actions, appData, winGroup, events, ret,
                   panic, mn, handles, rd>>

\* The host program creates a window; the allocator gives it the address of
\* a window closed before.
OpenWindow(w) ==
    /\ panic = NoPanic
    /\ ~winOpen[w]
    /\ winOpen' = [winOpen EXCEPT ![w] = TRUE]
    /\ winGroup' = [winGroup EXCEPT ![w] = NoApp]
    /\ UNCHANGED <<counter, menu, nodes, gmenus, actions, appData, winApp, events, ret,
                   panic, mn, handles, rd>>

\* The application builds a Menu and attaches it to windows that the host
\* program opens, gives applications and closes.
NextWin ==
    \/ \E c \in CtorsHandle : NewNode(c)
    \/ \E n \in Nodes : MenuAppend(n)
    \/ \E w \in Windows : \E c \in Containers : winOpen[w] /\ InitForGtkWindow(w, c)
    \/ \E w \in Windows : \E a \in Apps \cup {NoApp} : SetApplication(w, a)
    \/ \E w \in Windows : CloseWindow(w)
    \/ \E w \in Windows : OpenWindow(w)

\* The host program's windows keep being closed and opened: the main loop
\* delivers every window event that is pending.
WindowEvent == \E w \in Windows : CloseWindow(w) \/ OpenWindow(w)

SpecWin == Init /\ [][NextWin]_vars /\ WF_vars(WindowEvent)

\* The attachment of window w: its entry in the Menu's instances or a
\* backend instance of a node under its id.
Attached(w) ==
    \/ WindowId(w) \in DOMAIN menu.instances
    \/ \E n \in Nodes : WindowId(w) \in DOMAIN nodes[n].instances

\* C25: when a window a Menu is attached to is closed, its attachment is
\* eventually gone from the Menu's instances and from every node.
C25_ClosedWindowIsDetached ==
    \A w \in Windows : (~winOpen[w] /\ Attached(w)) ~> ~Attached(w)

\* ------------------------------------------------ claims: RefCell borrows
\* The panics of RefCell::borrow and RefCell::borrow_mut.
BorrowPanics == {"already borrowed", "already mutably borrowed"}

\* C26: no operation on a structure built through append and insert asks
\* for a view of a node while a mutable view of that node is active.
C26_NoBorrowConflict == panic \notin BorrowPanics

\* ------------------------------------------------ claims: materialization
\* The constructor calls of items that are disabled or checked.
CtorsMat ==
    { Ctor("MenuItem", <<"quit">>, T1, FALSE, FALSE, FALSE),
      Ctor("CheckMenuItem", <<>>, T1, TRUE, TRUE, FALSE),
      Ctor("CheckMenuItem", <<>>, T1, FALSE, FALSE, FALSE) }

\* The application builds a Menu of such items and attaches it; the user
\* activates items of the menu bars.
NextMat ==
    \/ \E c \in CtorsMat : NewNode(c)
    \/ \E n \in Nodes : MenuAppend(n)
    \/ \E w \in Windows : \E c \in Containers : InitForGtkWindow(w, c)
    \/ Activate

SpecMat == Init /\ [][NextMat]_vars

\* The backend instances that a step has added to node n.
NewInstances(n) == InstancesOf(nodes', n) \ InstancesOf(nodes, n)

\* C28: the backend instance that a materialization makes carries the
\* node's text, its enabled flag and (check items) its checked state: the
\* instance of a node whose enabled is false sends no event when activated.
C28_InstanceCarriesState ==
    [][\A w \in Windows : \A c \in Containers : InitForGtkWindow(w, c) /\ ret' = "Ok" =>
           \A n \in Nodes : \A i \in NewInstances(n) :
               /\ i.item.label = to_gtk_mnemonic(nodes'[n].text)
               /\ i.variant = "CheckItem" => actions'[i.action].state = <<nodes'[n].checked>>
               /\ ~nodes'[n].enabled => ~Sensitive(w, i.item)']_vars

\* ------------------------------------------------ claims: showing popups
\* The cached popup widget of the root Menu.
MenuPopup == menu.instances[menu.ctx_menu_id]

\* C29: a show_context_menu_for_gtk_window call that returns true leaves
\* the cached popup parented to the window given and popped up, and a
\* dismissal leaves the dismissed popup without a parent.
C29_ShowParentsDismissUnparents ==
    [][/\ \A w \in Windows : MenuShowContextMenu(w) /\ ret' = "true" =>
              MenuPopup'.parent = w /\ MenuPopup'.visible
       /\ \A p \in SubmenuNodes : \A w \in Windows :
              SubmenuShowContextMenu(p, w) /\ ret' = "true" =>
                  PopupOf(p)'.parent = w /\ PopupOf(p)'.visible
       /\ Dismiss => \E c \in MenuPopupsShown \cup NodePopupsShown :
              IF c.popup = -1 THEN MenuPopup'.parent = NoWin
              ELSE PopupOf(c.popup)'.parent = NoWin]_vars

\* ------------------------------------------------ claims: the menu bar's place
\* The container arguments a caller may pass: none, the three types the
\* code names and a widget of another type (container.type_().name()).
ContainersAny == {"None", "GtkBox", "GtkFixed", "GtkStack", "GtkGrid"}

\* The application builds a Menu and attaches it to windows, inside
\* containers of every type.
NextPlace ==
    \/ \E c \in CtorsHandle : NewNode(c)
    \/ \E n \in Nodes : MenuAppend(n)
    \/ \E w \in Windows : \E c \in ContainersAny : InitForGtkWindow(w, c)
    \/ \E w \in Windows : \E a \in Apps \cup {NoApp} : SetApplication(w, a)

SpecPlace == Init /\ [][NextPlace]_vars

\* The places of the menu bar that C30 allows for a container.
PlaceFor(container) ==
    CASE container = "None" -> {"window.set_child"}
      [] container = "GtkBox" -> {"box.prepend"}
      [] container = "GtkFixed" -> {"fixed.put"}
      [] container = "GtkStack" -> {"stack.add_child"}
      [] OTHER -> {"window.set_child", "box.prepend", "fixed.put", "stack.add_child"}

\* C30: when init_for_gtk_window returns Ok the menu bar widget is in the
\* widget hierarchy, at the one place its container gives, whatever
\* container the caller passes.
C30_OkMeansPlaced ==
    [][\A w \in Windows : \A c \in ContainersAny : InitForGtkWindow(w, c) /\ ret' = "Ok" =>
           menu'.instances[WindowId(w)].placed \in PlaceFor(c)]_vars

\* ------------------------------------------------ claims: attachment ids
\* The application builds a Menu and attaches it to the windows of the
\* process.
NextPtr ==
    \/ \E c \in CtorsHandle : NewNode(c)
    \/ \E n \in Nodes : MenuAppend(n)
    \/ \E w \in HostWindows : \E c \in Containers : InitForGtkWindow(w, c)
    \/ \E w \in Windows : \E a \in Apps \cup {NoApp} : SetApplication(w, a)

SpecPtr == Init /\ [][NextPtr]_vars

\* The Menu has a menu bar made for window w.
HasBarOf(w) == \E k \in DOMAIN menu.instances : menu.instances[k].win = w

\* C31: distinct live windows have distinct attachment ids: attaching the
\* Menu to a window it is not attached to is never rejected with
\* AlreadyInitialized.
C31_DistinctWindowsDistinctIds ==
    [][\A w \in HostWindows : \A c \in Containers :
           (~HasBarOf(w) /\ InitForGtkWindow(w, c)) => ret' # "AlreadyInitialized"]_vars

\* ------------------------------------------------ claims: checked state
\* mod.rs:650-657  MenuChild::is_checked: the state of the action of the
\* first backend instance that instances.values() yields, `ord` being the
\* order in which the HashMap is iterated; self.checked when there is none.
is_checked(acts, self, ord) ==
    LET found == SelectSeq(ord, LAMBDA k : self.instances[k] # <<>>)
    IN IF found = <<>> THEN self.checked
       ELSE LET i == self.instances[found[1]][1]
            IN IF acts[i.action].state = <<>> THEN self.checked
               ELSE acts[i.action].state[1]

\* The values is_checked() may return for node n.
IsCheckedValues(acts, ns, n) ==
    {is_checked(acts, ns[n], o) : o \in Orders(DOMAIN ns[n].instances)}

\* The values that the actions of node n's backend instances hold.
InstanceStates(acts, ns, n) == {acts[i.action].state : i \in InstancesOf(ns, n)}

\* C32: for a check item materialized under two or more attachments, after
\* a native toggle of the item in one attachment is_checked() returns the
\* toggled value and every backend instance reports that value.
C32_ToggleSeenEverywhere ==
    [][\A c \in Shown : \A it \in ItemsUnder(gmenus, c.menu) :
           (/\ ActivateItem(c, it)
            /\ it.node \in Nodes
            /\ nodes[it.node].type_ = Check
            /\ Cardinality(DOMAIN nodes[it.node].instances) >= 2) =>
               LET v == ~actions[ResolveAction(c.win, it)].state[1]
               IN /\ IsCheckedValues(actions', nodes', it.node) = {v}
                  /\ InstanceStates(actions', nodes', it.node) = {<<v>>}]_vars

\* The checked state that the widgets of window w show for the gio item
\* `it`: the state of the action that the item's name resolves to.
ShownState(w, it) == actions[ResolveAction(w, it)].state

\* C33: making a further backend instance of a check item (attaching its
\* tree to another window) changes neither what is_checked() returns nor
\* what the item's existing backend instances show, also after the user
\* has toggled the item.
C33_NewInstanceKeepsChecked ==
    [][\A w \in Windows : \A c \in Containers : (InitForGtkWindow(w, c) /\ ret' = "Ok") =>
           \A n \in Nodes : (nodes[n].type_ = Check /\ InstancesOf(nodes, n) # {}) =>
               /\ IsCheckedValues(actions', nodes', n) = IsCheckedValues(actions, nodes, n)
               /\ \A b \in BarsShown : \A it \in ItemsUnder(gmenus, b.menu) :
                      it.node = n => ShownState(b.win, it)' = ShownState(b.win, it)]_vars

\* ------------------------------------------------ claims: activation routes
\* The constructor calls of enabled leaves, with the ids a caller may give
\* to a check item.
CtorsRoute ==
    { Ctor("MenuItem", <<"quit">>, T1, TRUE, FALSE, FALSE),
      Ctor("CheckMenuItem", <<"quit">>, T1, TRUE, FALSE, FALSE),
      Ctor("CheckMenuItem", <<DEFAULT_ACTION>>, T1, TRUE, FALSE, FALSE),
      Ctor("CheckMenuItem", <<>>, T1, TRUE, FALSE, FALSE) }

\* The application builds a Menu of leaves, attaches it and goes on
\* appending; the user activates items.
NextRoute ==
    \/ \E c \in CtorsRoute : NewNode(c)
    \/ \E n \in Nodes : MenuAppend(n)
    \/ \E w \in Windows : \E c \in Containers : InitForGtkWindow(w, c)
    \/ Activate

SpecRoute == Init /\ [][NextRoute]_vars

\* The ids of the events that activating the gio item `it` in window w
\* sends: none when GTK does not activate the item.
EventsOf(w, it) ==
    IF ~Sensitive(w, it) THEN {}
    ELSE LET a == actions[ResolveAction(w, it)]
         IN IF a.handler = "activate" THEN {it.target[1]} ELSE {a.id[1]}

\* C34: materializing a node never takes away the activation route of
\* another: every materialized leaf sends an event with its own id when
\* activated, whatever the ids of the items.
C34_RoutesArePreserved ==
    \A c \in BarsShown : \A it \in ItemsUnder(gmenus, c.menu) :
        it.link = NoRef => EventsOf(c.win, it) = {nodes[it.node].id}

\* ------------------------------------------------ claims: context-menu keys
\* The values COUNTER may hold when the application calls Menu::new: the
\* counter is one static of the process, advanced by every Menu, Submenu
\* and item made before.
CounterStarts == {1, 4095}

\* mod.rs:97-104  Menu::new, with COUNTER at any of its starts
InitKey ==
    /\ mn = NoConversion
    /\ handles = NoHandles
    /\ rd = NoReader
    /\ winOpen = [w \in HostWindows |-> TRUE]
    /\ \E c0 \in CounterStarts :
           /\ counter = c0 + 2
           /\ menu = [id |-> IdFromCounter(c0), instances |-> EmptyMap,
                      ctx_menu_id |-> c0 + 1, children |-> <<>>]
    /\ nodes = <<>>
    /\ gmenus = EmptyMap
    /\ actions = EmptyMap
    /\ appData = [a \in Apps |-> [set |-> FALSE, acts |-> EmptyMap, groups |-> 0]]
    /\ winApp = [w \in HostWindows |-> "app1"]
    /\ winGroup = [w \in HostWindows |-> NoApp]
    /\ events = <<>>
    /\ ret = "Ok"
    /\ panic = NoPanic

\* The application builds a Menu with a submenu, attaches it and shows the
\* Menu and the submenu as context menus.
NextKey ==
    \/ \E c \in {Ctor("Submenu", <<>>, T1, TRUE, FALSE, FALSE)} \cup CtorsHandle : NewNode(c)
    \/ \E n \in Nodes : MenuAppend(n)
    \/ \E w \in Windows : \E c \in Containers : InitForGtkWindow(w, c)
    \/ \E w \in Windows : MenuShowContextMenu(w)
    \/ \E p \in SubmenuNodes : \E w \in Windows : SubmenuShowContextMenu(p, w)

SpecKey == InitKey /\ [][NextKey]_vars

\* C35: a ctx_menu_id is never a key of a window attachment or of a
\* parent's container in the same instances map: a show finds nothing or a
\* popup under ctx_menu_id, and an attachment never finds a popup under
\* the window's id.
C35_CtxKeyHoldsPopupOnly ==
    /\ panic # "unreachable"
    /\ menu.ctx_menu_id \in DOMAIN menu.instances =>
           menu.instances[menu.ctx_menu_id].variant = "ContextMenu"
    /\ \A w \in Windows : WindowId(w) \in DOMAIN menu.instances =>
           menu.instances[WindowId(w)].variant = "MenuBar"
    /\ \A p \in SubmenuNodes : nodes[p].ctx_menu_id \in DOMAIN nodes[p].instances => HasPopup(p)

\* ------------------------------------------------ claims: icon items
\* icon.rs:70-190  the four constructors of IconMenuItem.
IconCtors == {"IconMenuItem", "IconMenuItem::with_native_icon"}

CtorsIcon == {Ctor(k, i, T1, TRUE, FALSE, FALSE) : k \in IconCtors, i \in {<<>>, <<"quit">>}}

\* The application builds a Menu of icon items and attaches it; the user
\* activates items.
NextIcon ==
    \/ \E c \in CtorsIcon : NewNode(c)
    \/ \E n \in Nodes : MenuAppend(n)
    \/ \E w \in Windows : \E c \in Containers : InitForGtkWindow(w, c)
    \/ Activate

SpecIcon == Init /\ [][NextIcon]_vars

\* C36: a node made by a constructor of IconMenuItem has kind Icon, and
\* its backend instances are leaves that send an event with the node's id
\* when activated, never submenus.
C36_IconItemsAreLeaves ==
    \A n \in Nodes : nodes[n].ctor \in IconCtors =>
        /\ nodes[n].type_ = Icon
        /\ \A i \in InstancesOf(nodes, n) : i.variant = "Item"
        /\ \A c \in BarsShown : \A it \in ItemsUnder(gmenus, c.menu) :
               it.node = n => it.link = NoRef /\ EventsOf(c.win, it) = {nodes[n].id}

\* ------------------------------------------------ claims: set_parent
\* The root Menu (node p: the submenu p) has a cached popup that has a
\* parent.
MenuPopupParented ==
    /\ menu.ctx_menu_id \in DOMAIN menu.instances
    /\ MenuPopup.variant = "ContextMenu"
    /\ MenuPopup.parent # NoWin

NodePopupParented(p) == HasPopup(p) /\ PopupOf(p).parent # NoWin

\* C37: in every interleaving of shows and dismissals on one Menu or
\* Submenu, the popup has no parent when a show that reaches set_parent
\* begins.
C37_SetParentOnUnparentedPopup ==
    [][/\ \A w \in Windows : (MenuShowContextMenu(w) /\ ret' = "true") => ~MenuPopupParented
       /\ \A p \in SubmenuNodes : \A w \in Windows :
              (SubmenuShowContextMenu(p, w) /\ ret' = "true") => ~NodePopupParented(p)]_vars

\* ------------------------------------------------ claims: the logical tree
\* The logical tree: the children of the root Menu and of every node, and
\* the id, text, enabled flag, kind and accelerator of every node.
LogicalTree(m, ns) ==
    <<m.children,
      [n \in 1..Len(ns) |-> <<ns[n].children, ns[n].id, ns[n].text, ns[n].enabled,
                              ns[n].type_, ns[n].accelerator>>]>>

\* A call of init_for_gtk_window or of show_context_menu_for_gtk_window.
AttachOrShow ==
    \/ \E c \in Containers : InitForGtkWindow("w1", c)
    \/ \E w \in Windows : MenuShowContextMenu(w)
    \/ \E p \in SubmenuNodes : \E w \in Windows : SubmenuShowContextMenu(p, w)

\* C38: init_for_gtk_window and show_context_menu_for_gtk_window leave the
\* logical tree as it was, whatever they return.
C38_AttachAndShowKeepTree ==
    [][AttachOrShow => LogicalTree(menu', nodes') = LogicalTree(menu, nodes)]_vars

\* The Menu holds a submenu that holds an item; the Menu is attached and
\* has its popup, the submenu has its popup, and the last call has failed.
C38_Witness ==
    /\ WindowId("w1") \in DOMAIN menu.instances
    /\ menu.ctx_menu_id \in DOMAIN menu.instances
    /\ \E p \in SubmenuNodes :
           /\ HasPopup(p)
           /\ nodes[p].children # <<>>
           /\ \E i \in 1..Len(menu.children) : menu.children[i] = p
    /\ ret = "AlreadyInitialized"

====
